---- MODULE Spec2Model ----
(***************************************************************************)
(* Signal generation and trade gating of the lightning trading bot.        *)
(*                                                                         *)
(*   SpecFusion  calculate_ohlc_with_price_signal and the mapping of its   *)
(*               result to a Signal (src/src/math/get_signals.rs)          *)
(*   SpecMerger  the get_signals loop fed by the tick forwarder and the    *)
(*               indicator task of main (src/src/main.rs)                  *)
(*   SpecGate    process_signals and the create_trade_from_signal runs it  *)
(*               spawns (src/src/utils/process_signals.rs,                 *)
(*               src/src/math/create_trade_from_signal.rs)                 *)
(*                                                                         *)
(* Prices, indicator values and balances are whole numbers.  Option<T> is  *)
(* a sequence of length 0 (None) or 1 (Some).                              *)
(***************************************************************************)
EXTENDS Integers, Sequences, FiniteSets, TLC

VARIABLES
    \* ---- SpecFusion
    f_price,          \* PriceData.last_price handed to the fusion function
    f_ind,            \* Indicators handed to the fusion function
    f_pc,             \* "call" before the function ran, "done" after
    f_value,          \* the i32 returned by calculate_ohlc_with_price_signal
    f_signal,         \* the Signal get_signals maps it to
    \* ---- SpecMerger
    signal_chan,      \* mpsc channel signal_tx -> signal_rx (SignalData)
    last_signal,      \* get_signals: last_signal : Option<SignalData>
    m_pc,             \* get_signals: "recv" at rx.recv(), "send" at tx.send()
    m_pending,        \* the Signal computed and not yet sent
    result_chan,      \* mpsc channel signal_result_tx -> signal_result_rx
    recvLog,          \* history: every SignalData get_signals received
    emitLog,          \* history: every Signal sent, with what it was fused from
    nSent,            \* number of SignalData messages the producers sent
    indicators_init,  \* main: bot_params.indicators after init_bot_params
    \* ---- SpecGate
    now,              \* tokio clock, whole seconds since process_signals began
    last_trade_time,  \* process_signals: last_trade_time
    tasks,            \* the spawned create_trade_from_signal runs
    bot_lock,         \* holder of the Mutex<BotParams>: 0 free, else a task
    market,           \* bot_params.market_data (limits and fee tiers)
    running,          \* exchange: number of running trades of the account
    orders,           \* history: every order-placement call
    approvals,        \* history: when each run was spawned, and
                      \* last_trade_time before and after
    \* ---- SpecPipeline
    ws_count,         \* ticks the WebSocket reader task has read (ids 1, 2, ..)
    reader_pc,        \* reader task: "next" at read.next(), "send" at send()
    price_chan,       \* mpsc channel price_tx -> price_rx (tick ids)
    fwd_pc,           \* tick forwarder: "recv", "lock" (signal_tx), "send"
    fwd_tick,         \* the tick the forwarder holds
    bars,             \* time of the last bar of the shared OHLC series
    ud_pc,            \* update_data: "tick" at the timer, "fetch" at the call
    senders,          \* the sender tasks update_data spawned
    ohlc_lock,        \* holder of the OHLC Mutex: 0 free, -1 update_data,
                      \* else a sender
    rx_chan,          \* mpsc channel tx -> rx (OHLC series, by last bar)
    ind_pc,           \* indicator task: "recv", "lock_bot", "lock_tx", "send"
    ind_data,         \* last bar of the series the indicator task holds
    stored,           \* last bar of bot_params.indicators, None if absent
    params_lock,      \* holder of the Mutex<BotParams> in main's tasks
    tx_lock,          \* holder of the Mutex around signal_tx
    ticks_recv,       \* history: number of ticks get_signals received
    tick_gap,         \* history: a tick arrived that did not follow the last
    snap_last,        \* history: last bar of the last snapshot received
    snap_back,        \* history: a snapshot arrived older than the last
    snaps_sent,       \* history: snapshots put on the signal channel
    snaps_recv,       \* history: snapshots get_signals received
    \* ---- SpecMain
    main_pc,          \* main: "init", "matched", "spawn_feed", .., "exited"
    task,             \* state of each spawned task: "none" before its spawn,
                      \* then its position, "returned" or "aborted"
    shutdown_chan,    \* mpsc channel shutdown_tx -> shutdown_rx: messages
    \* ---- SpecSnapshot
    snapshot,         \* bot_params.indicators: Option<Indicators>
    computed,         \* the values handed to the last update_indicators
    previous,         \* history: bot_params.indicators before that call
    updates,          \* number of calls of update_indicators
    \* ---- SpecSeries, SpecSizing
    fn_call,          \* the function called and its arguments
    fn_ret,           \* what the call came to: a value, an Err or a panic
    \* ---- SpecRefresh
    ohlc_data,        \* update_data: the shared series, by the time of each bar
    startup_data,     \* history: the series main handed to update_data
    rf_pc,            \* update_data: "tick" at the timer, "fetch" at the call
    rf_lock,          \* holder of the series' Mutex: "free", "update_data",
                      \* "sender"
    rf_waiting,       \* sender tasks spawned that have not sent yet
    rf_chan,          \* mpsc channel tx -> rx: the series sent
    rf_last,          \* history: the last pass of the loop
    rf_errors         \* history: "Error updating OHLC data" lines logged

fusionVars == <<f_price, f_ind, f_pc, f_value, f_signal>>
mergerVars == <<signal_chan, last_signal, m_pc, m_pending, result_chan,
                recvLog, emitLog, nSent, indicators_init>>
gateVars   == <<now, last_trade_time, tasks, bot_lock, market, running,
                orders, approvals>>
pipeVars   == <<ws_count, reader_pc, price_chan, fwd_pc, fwd_tick, bars,
                ud_pc, senders, ohlc_lock, rx_chan, ind_pc, ind_data, stored,
                params_lock, tx_lock, ticks_recv, tick_gap, snap_last,
                snap_back, snaps_sent, snaps_recv>>
mainVars   == <<main_pc, task, shutdown_chan>>
snapVars   == <<snapshot, computed, previous, updates>>
callVars   == <<fn_call, fn_ret>>
refreshVars == <<ohlc_data, startup_data, rf_pc, rf_lock, rf_waiting, rf_chan,
                 rf_last, rf_errors>>
vars == <<fusionVars, mergerVars, gateVars, pipeVars, mainVars, snapVars,
          callVars, refreshVars>>

----------------------------------------------------------------------------
(* Option<T> *)

None == <<>>
Some(v) == <<v>>
IsSome(o) == Len(o) = 1
IsNone(o) == Len(o) = 0
Unwrap(o) == o[1]

----------------------------------------------------------------------------
(***************************************************************************)
(* f64 arithmetic of the score.  The score is a sum of the weights 0.25,   *)
(* 0.30 and 0.20 times 1, 2, -1 or -2, compared with 1.55 and 0.2.  Every  *)
(* one of these doubles is a whole multiple of 2^-55 and every partial sum *)
(* is below 4 in magnitude, so a double x is held as the integer x * 2^55  *)
(* in sign and magnitude, the magnitude in two limbs of 29 bits            *)
(* (hi * 2^29 + lo).  A sum is formed exactly and then rounded to 53       *)
(* significant bits, ties to even, as IEEE-754 addition does.              *)
(***************************************************************************)

LIMB == 2^29

F64(neg, hi, lo) == [neg |-> neg, hi |-> hi, lo |-> lo]

F64Zero == F64(FALSE, 0, 0)

IsZeroMag(x) == x.hi = 0 /\ x.lo = 0

\* |x| < |y|, |x| = |y|
MagLt(x, y) == x.hi < y.hi \/ (x.hi = y.hi /\ x.lo < y.lo)
MagEq(x, y) == x.hi = y.hi /\ x.lo = y.lo

\* exact |x| + |y| with the sign given
MagAdd(neg, x, y) ==
    LET lo == x.lo + y.lo
    IN  IF lo >= LIMB THEN F64(neg, x.hi + y.hi + 1, lo - LIMB)
                      ELSE F64(neg, x.hi + y.hi, lo)

\* exact |x| - |y| for |x| >= |y| with the sign given
MagSub(neg, x, y) ==
    IF x.lo >= y.lo THEN F64(neg, x.hi - y.hi, x.lo - y.lo)
                    ELSE F64(neg, x.hi - y.hi - 1, x.lo + LIMB - y.lo)

\* number of low bits a magnitude loses when kept to 53 significant bits:
\* hi < 2^24 means the magnitude is below 2^53
DropBits(x) ==
    IF x.hi < 2^24 THEN 0
    ELSE IF x.hi < 2^25 THEN 1
    ELSE IF x.hi < 2^26 THEN 2
    ELSE IF x.hi < 2^27 THEN 3
    ELSE IF x.hi < 2^28 THEN 4
    ELSE 5

\* round to nearest, ties to even
F64Round(x) ==
    LET k    == DropBits(x)
        q    == 2^k
        r    == x.lo % q
        base == x.lo - r
        up   == k > 0 /\ (2 * r > q \/ (2 * r = q /\ (base \div q) % 2 = 1))
        lo   == IF up THEN base + q ELSE base
        y    == IF lo >= LIMB THEN F64(x.neg, x.hi + 1, lo - LIMB)
                              ELSE F64(x.neg, x.hi, lo)
    IN  IF IsZeroMag(y) THEN F64Zero ELSE y

\* x + y
F64Add(x, y) ==
    F64Round(IF x.neg = y.neg THEN MagAdd(x.neg, x, y)
             ELSE IF MagLt(x, y) THEN MagSub(y.neg, y, x)
             ELSE MagSub(x.neg, x, y))

\* x * 2.0 and x * -1.0 are exact
F64Twice(x) == MagAdd(x.neg, x, x)
F64Neg(x) == IF IsZeroMag(x) THEN x ELSE F64(~x.neg, x.hi, x.lo)

\* x < y, x <= y
F64Lt(x, y) ==
    IF x.neg /\ ~y.neg THEN TRUE
    ELSE IF ~x.neg /\ y.neg THEN FALSE
    ELSE IF x.neg THEN MagLt(y, x)
    ELSE MagLt(x, y)
F64Le(x, y) == F64Lt(x, y) \/ (x.neg = y.neg /\ MagEq(x, y))

\* w * m for the multipliers -2.0, -1.0, 1.0, 2.0 the code uses, 0 for none
F64Times(w, m) ==
    CASE m = 2  -> F64Twice(w)
      [] m = 1  -> w
      [] m = -1 -> F64Neg(w)
      [] m = -2 -> F64Neg(F64Twice(w))
      [] OTHER  -> F64Zero

----------------------------------------------------------------------------
(* load_signal_settings (src/src/config.rs) *)

bollinger_weight == F64(FALSE, 16777216, 0)           \* 0.25
rsi_weight       == F64(FALSE, 20132659, 107374182)   \* 0.30
ma_ema_weight    == F64(FALSE, 13421772, 429496730)   \* 0.20
atr_weight       == F64(FALSE, 16777216, 0)           \* 0.25
gap_value        == 15

\* the literals 1.55 and 0.2 of the final determination
F64_1_55 == F64(FALSE, 104018739, 107374184)
F64_0_2  == F64(FALSE, 13421772, 429496730)

----------------------------------------------------------------------------
(***************************************************************************)
(* calculate_ohlc_with_price_signal.  The comparisons against the ATR      *)
(* thresholds price*0.005, *1.5 and *1.75 are made on whole numbers        *)
(* (atr > price*0.005 as 200*atr > price, and so on): for whole prices and *)
(* ATR values of this size the f64 products decide them the same way.      *)
(***************************************************************************)

Indicators(bb, rsi, ma, ema, atr) ==
    [ohlc_bollinger_bands |-> bb, ohlc_rsi |-> rsi, ohlc_ma |-> ma,
     ohlc_ema |-> ema, atr |-> atr]

\* InputsValid without the check of the ATR
InputsValid_NoAtrCheck(price, ind) ==
    /\ ~(price <= 0)
    /\ IsSome(ind.ohlc_bollinger_bands) =>
         LET b == Unwrap(ind.ohlc_bollinger_bands)
         IN  ~(b[1] < 0 \/ b[2] < 0 \/ b[3] < 0)
    /\ IsSome(ind.ohlc_rsi) =>
         ~(Unwrap(ind.ohlc_rsi) < 0 \/ Unwrap(ind.ohlc_rsi) > 100)
    /\ IsSome(ind.ohlc_ma) => ~(Unwrap(ind.ohlc_ma) < 0)
    /\ IsSome(ind.ohlc_ema) => ~(Unwrap(ind.ohlc_ema) < 0)

\* InputsValid without the upper bound on the RSI
InputsValid_NoRsiCeiling(price, ind) ==
    /\ ~(price <= 0)
    /\ IsSome(ind.ohlc_bollinger_bands) =>
         LET b == Unwrap(ind.ohlc_bollinger_bands)
         IN  ~(b[1] < 0 \/ b[2] < 0 \/ b[3] < 0)
    /\ IsSome(ind.ohlc_rsi) => ~(Unwrap(ind.ohlc_rsi) < 0)
    /\ IsSome(ind.ohlc_ma) => ~(Unwrap(ind.ohlc_ma) < 0)
    /\ IsSome(ind.ohlc_ema) => ~(Unwrap(ind.ohlc_ema) < 0)
    /\ IsSome(ind.atr) => ~(Unwrap(ind.atr) < 0)

\* the early returns of lines 79-119: TRUE when none of them is taken
InputsValid(price, ind) ==
    /\ ~(price <= 0)
    /\ IsSome(ind.ohlc_bollinger_bands) =>
         LET b == Unwrap(ind.ohlc_bollinger_bands)
         IN  ~(b[1] < 0 \/ b[2] < 0 \/ b[3] < 0)
    /\ IsSome(ind.ohlc_rsi) =>
         ~(Unwrap(ind.ohlc_rsi) < 0 \/ Unwrap(ind.ohlc_rsi) > 100)
    /\ IsSome(ind.ohlc_ma) => ~(Unwrap(ind.ohlc_ma) < 0)
    /\ IsSome(ind.ohlc_ema) => ~(Unwrap(ind.ohlc_ema) < 0)
    /\ IsSome(ind.atr) => ~(Unwrap(ind.atr) < 0)

\* the multiplier each check applies to its weight (0: nothing is added)
BollingerFactor(price, bb) ==
    IF IsNone(bb) THEN 0
    ELSE LET lower == Unwrap(bb)[1]
             upper == Unwrap(bb)[3]
         IN  IF price > upper + gap_value THEN -2
             ELSE IF price < lower - gap_value THEN 2
             ELSE IF price > upper THEN -1
             ELSE IF price < lower THEN 1
             ELSE 0

\* RsiFactor that counts an RSI in the neutral band as a buy
RsiFactor_NeutralCounts(rsi) ==
    IF IsNone(rsi) THEN 0
    ELSE LET r == Unwrap(rsi)
         IN  IF r > 80 THEN -2
             ELSE IF r > 70 THEN -1
             ELSE IF r < 20 THEN 2
             ELSE 1

RsiFactor(rsi) ==
    IF IsNone(rsi) THEN 0
    ELSE LET r == Unwrap(rsi)
         IN  IF r > 80 THEN -2
             ELSE IF r > 70 THEN -1
             ELSE IF r < 20 THEN 2
             ELSE IF r < 30 THEN 1
             ELSE 0

MaFactor(price, ma) ==
    IF IsNone(ma) THEN 0
    ELSE LET v == Unwrap(ma)
         IN  IF price > v + gap_value THEN -2
             ELSE IF price > v THEN -1
             ELSE IF price < v - gap_value THEN 2
             ELSE IF price < v THEN 1
             ELSE 0

EmaFactor(price, ema) ==
    IF IsNone(ema) THEN 0
    ELSE LET v == Unwrap(ema)
         IN  IF price > v + gap_value THEN -2
             ELSE IF price > v THEN -1
             ELSE IF price < v - gap_value THEN 2
             ELSE IF price < v THEN 1
             ELSE 0

\* high_volatility_threshold = price*0.005 = price/200,
\* strong_buy_threshold = price*3/400, strong_sell_threshold = price*7/800
AtrFactor(price, atr) ==
    IF IsNone(atr) THEN 0
    ELSE LET a == Unwrap(atr)
             aboveSell == 800 * a > 7 * price
             aboveHigh == 200 * a > price
         IN  IF aboveSell /\ 800 * price > 800 * a + 7 * price THEN -2
             ELSE IF aboveSell /\ 400 * price < 400 * a - 3 * price THEN 2
             ELSE IF aboveHigh /\ price > a THEN -1
             ELSE IF aboveHigh /\ price < a THEN 1
             ELSE 0

\* Score without the EMA check
Score_NoEma(price, ind) ==
    LET s1 == F64Add(F64Zero, F64Times(bollinger_weight,
                                  BollingerFactor(price, ind.ohlc_bollinger_bands)))
        s2 == F64Add(s1, F64Times(rsi_weight, RsiFactor(ind.ohlc_rsi)))
        s3 == F64Add(s2, F64Times(ma_ema_weight, MaFactor(price, ind.ohlc_ma)))
    IN  F64Add(s3, F64Times(atr_weight, AtrFactor(price, ind.atr)))

\* Score without the MA check
Score_NoMa(price, ind) ==
    LET s1 == F64Add(F64Zero, F64Times(bollinger_weight,
                                  BollingerFactor(price, ind.ohlc_bollinger_bands)))
        s2 == F64Add(s1, F64Times(rsi_weight, RsiFactor(ind.ohlc_rsi)))
        s4 == F64Add(s2, F64Times(ma_ema_weight, EmaFactor(price, ind.ohlc_ema)))
    IN  F64Add(s4, F64Times(atr_weight, AtrFactor(price, ind.atr)))

\* the f64 accumulator `signal` after the five checks, in source order
Score(price, ind) ==
    LET s0 == F64Zero
        s1 == F64Add(s0, F64Times(bollinger_weight,
                                  BollingerFactor(price, ind.ohlc_bollinger_bands)))
        s2 == F64Add(s1, F64Times(rsi_weight, RsiFactor(ind.ohlc_rsi)))
        s3 == F64Add(s2, F64Times(ma_ema_weight, MaFactor(price, ind.ohlc_ma)))
        s4 == F64Add(s3, F64Times(ma_ema_weight, EmaFactor(price, ind.ohlc_ema)))
        s5 == F64Add(s4, F64Times(atr_weight, AtrFactor(price, ind.atr)))
    IN  s5

\* lines 219-230
FinalSignal(s) ==
    IF F64Le(F64_1_55, s) THEN 2
    ELSE IF F64Lt(F64_0_2, s) THEN 1
    ELSE IF F64Le(s, F64Neg(F64_1_55)) THEN -2
    ELSE IF F64Lt(s, F64Neg(F64_0_2)) THEN -1
    ELSE 0

calculate_ohlc_with_price_signal(price, ind) ==
    IF ~InputsValid(price, ind) THEN 0
    ELSE FinalSignal(Score(price, ind))

\* get_signals, lines 60-67
SignalOf(signal_value) ==
    CASE signal_value = -2 -> "StrongSell"
      [] signal_value = -1 -> "Sell"
      [] signal_value = 0  -> "Hold"
      [] signal_value = 1  -> "Buy"
      [] signal_value = 2  -> "StrongBuy"
      [] OTHER             -> "Undefined"

Signals == {"StrongSell", "Sell", "Hold", "Buy", "StrongBuy", "Undefined"}

----------------------------------------------------------------------------
(***************************************************************************)
(* SpecFusion: one call of calculate_ohlc_with_price_signal on a tick      *)
(* price and an indicator snapshot, and the match of get_signals on the    *)
(* returned value.  The inputs cover every branch of every check around a  *)
(* price of 1000 with the gap of 15, and the invalid values.               *)
(***************************************************************************)

Prices == {-1, 0, 1000}

BollingerValues ==
    {None, Some(<<-1, 1000, 1010>>), Some(<<900, 940, 980>>),
     Some(<<900, 945, 990>>), Some(<<990, 1000, 1010>>),
     Some(<<1010, 1050, 1100>>), Some(<<1020, 1050, 1100>>)}
RsiValues == {None, Some(-1), Some(10), Some(25), Some(50), Some(75),
              Some(90), Some(101)}
MaValues  == {None, Some(-1), Some(980), Some(990), Some(1000), Some(1010),
              Some(1020)}
AtrValues == {None, Some(-1), Some(3), Some(7), Some(10), Some(1005),
              Some(1010)}

FusionInit ==
    /\ f_price \in Prices
    /\ f_ind \in {Indicators(bb, rsi, ma, ema, atr) :
                    bb \in BollingerValues, rsi \in RsiValues, ma \in MaValues,
                    ema \in MaValues, atr \in AtrValues}
    /\ f_pc = "call"
    /\ f_value = None
    /\ f_signal = None
    /\ indicators_init = None /\ signal_chan = <<>> /\ last_signal = None
    /\ m_pc = "idle" /\ m_pending = None /\ result_chan = <<>>
    /\ recvLog = <<>> /\ emitLog = <<>> /\ nSent = 0
    /\ now = 0 /\ last_trade_time = 0 /\ tasks = <<>> /\ bot_lock = 0
    /\ market = None /\ running = 0 /\ orders = <<>> /\ approvals = <<>>
    /\ ws_count = 0 /\ reader_pc = "idle" /\ price_chan = <<>>
    /\ fwd_pc = "idle" /\ fwd_tick = 0 /\ bars = 0 /\ ud_pc = "idle"
    /\ senders = <<>> /\ ohlc_lock = 0 /\ rx_chan = <<>> /\ ind_pc = "idle"
    /\ ind_data = 0 /\ stored = None /\ params_lock = "free"
    /\ tx_lock = "free" /\ ticks_recv = 0 /\ tick_gap = FALSE
    /\ snap_last = 0 /\ snap_back = FALSE /\ snaps_sent = 0
    /\ snaps_recv = 0
    /\ main_pc = "idle" /\ task = <<>> /\ shutdown_chan = 0
    /\ snapshot = None /\ computed = None /\ previous = None /\ updates = 0
    /\ fn_call = None /\ fn_ret = None
    /\ ohlc_data = <<>> /\ startup_data = <<>> /\ rf_pc = "idle"
    /\ rf_lock = "free" /\ rf_waiting = 0 /\ rf_chan = <<>>
    /\ rf_last = None /\ rf_errors = 0

Calculate ==
    /\ f_pc = "call"
    /\ f_value' = Some(calculate_ohlc_with_price_signal(f_price, f_ind))
    /\ f_pc' = "match"
    /\ UNCHANGED <<f_price, f_ind, f_signal>>

MatchSignal ==
    /\ f_pc = "match"
    /\ f_signal' = Some(SignalOf(Unwrap(f_value)))
    /\ f_pc' = "done"
    /\ UNCHANGED <<f_price, f_ind, f_value>>

FusionNext ==
    \/ Calculate /\ UNCHANGED <<mergerVars, gateVars, pipeVars, mainVars, snapVars, callVars, refreshVars>>
    \/ MatchSignal /\ UNCHANGED <<mergerVars, gateVars, pipeVars, mainVars, snapVars, callVars, refreshVars>>

----------------------------------------------------------------------------
(***************************************************************************)
(* SpecMerger: get_signals and its producers in main.  main sends the      *)
(* initial snapshot when init_bot_params obtained one, the indicator task  *)
(* sends a snapshot after every bar refresh, the tick forwarder sends      *)
(* every price; get_signals merges them and sends a Signal to the result   *)
(* channel, which main's loop drains.                                      *)
(***************************************************************************)

MaxMsgs == 4              \* messages the two producers send in a run

SignalChanCap == 15       \* mpsc::channel::<SignalData>(15)
ResultChanCap == 15       \* mpsc::channel::<Signal>(15)

SignalData(price_data, indicators) ==
    [price_data |-> price_data, indicators |-> indicators]

MergerPrices == {980, 1020}
MergerIndicators ==
    {Indicators(None, None, Some(1000), None, None),
     Indicators(None, Some(90), None, None, None)}

\* MergeLatest without the two fill-ins from last_signal
MergeLatest_NoFill(signal_data, last) == signal_data

\* get_signals lines 42-54: updated_signal from the message and last_signal
MergeLatest(signal_data, last) ==
    SignalData(
        IF IsNone(signal_data.price_data) /\ IsSome(last)
            THEN Unwrap(last).price_data ELSE signal_data.price_data,
        IF IsNone(signal_data.indicators) /\ IsSome(last)
            THEN Unwrap(last).indicators ELSE signal_data.indicators)

\* StoreLast keeping the message as received instead of the merged one
StoreLast_Received(signal_data, updated_signal) == Some(signal_data)

\* line 56: what last_signal becomes
StoreLast(signal_data, updated_signal) == Some(updated_signal)

\* lines 59-67: the Signal for a complete pair
Fuse(price_data, indicators) ==
    SignalOf(calculate_ohlc_with_price_signal(price_data, indicators))

MergerInit ==
    /\ indicators_init \in {None} \cup {Some(i) : i \in MergerIndicators}
    /\ signal_chan = IF IsSome(indicators_init)
                       THEN <<SignalData(None, indicators_init)>> ELSE <<>>
    /\ last_signal = None
    /\ m_pc = "recv"
    /\ m_pending = None
    /\ result_chan = <<>>
    /\ recvLog = <<>>
    /\ emitLog = <<>>
    /\ nSent = 0
    /\ f_price = 0 /\ f_ind = None /\ f_pc = "idle"
    /\ f_value = None /\ f_signal = None
    /\ now = 0 /\ last_trade_time = 0 /\ tasks = <<>> /\ bot_lock = 0
    /\ market = None /\ running = 0 /\ orders = <<>> /\ approvals = <<>>
    /\ ws_count = 0 /\ reader_pc = "idle" /\ price_chan = <<>>
    /\ fwd_pc = "idle" /\ fwd_tick = 0 /\ bars = 0 /\ ud_pc = "idle"
    /\ senders = <<>> /\ ohlc_lock = 0 /\ rx_chan = <<>> /\ ind_pc = "idle"
    /\ ind_data = 0 /\ stored = None /\ params_lock = "free"
    /\ tx_lock = "free" /\ ticks_recv = 0 /\ tick_gap = FALSE
    /\ snap_last = 0 /\ snap_back = FALSE /\ snaps_sent = 0
    /\ snaps_recv = 0
    /\ main_pc = "idle" /\ task = <<>> /\ shutdown_chan = 0
    /\ snapshot = None /\ computed = None /\ previous = None /\ updates = 0
    /\ fn_call = None /\ fn_ret = None
    /\ ohlc_data = <<>> /\ startup_data = <<>> /\ rf_pc = "idle"
    /\ rf_lock = "free" /\ rf_waiting = 0 /\ rf_chan = <<>>
    /\ rf_last = None /\ rf_errors = 0

\* main lines 145-158: the tick forwarder sends a price
SendTick(p) ==
    /\ nSent < MaxMsgs
    /\ Len(signal_chan) < SignalChanCap
    /\ signal_chan' = Append(signal_chan, SignalData(Some(p), None))
    /\ nSent' = nSent + 1
    /\ UNCHANGED <<last_signal, m_pc, m_pending, result_chan, recvLog,
                   emitLog, indicators_init>>

\* main lines 82, 96-123: the indicator task, which exists only when the
\* initial snapshot does, sends a refreshed snapshot
SendIndicators(i) ==
    /\ IsSome(indicators_init)
    /\ nSent < MaxMsgs
    /\ Len(signal_chan) < SignalChanCap
    /\ signal_chan' = Append(signal_chan, SignalData(None, Some(i)))
    /\ nSent' = nSent + 1
    /\ UNCHANGED <<last_signal, m_pc, m_pending, result_chan, recvLog,
                   emitLog, indicators_init>>

\* get_signals lines 41-67: receive, merge, store, fuse when complete
MergerRecv ==
    /\ m_pc = "recv"
    /\ Len(signal_chan) > 0
    /\ LET signal_data    == Head(signal_chan)
           updated_signal == MergeLatest(signal_data, last_signal)
       IN  /\ signal_chan' = Tail(signal_chan)
           /\ recvLog' = Append(recvLog, signal_data)
           /\ last_signal' = StoreLast(signal_data, updated_signal)
           /\ IF IsSome(updated_signal.price_data)
                 /\ IsSome(updated_signal.indicators)
              THEN /\ m_pending' =
                        Some([at |-> Len(recvLog) + 1,
                              price_data |-> updated_signal.price_data,
                              indicators |-> updated_signal.indicators,
                              signal |-> Fuse(Unwrap(updated_signal.price_data),
                                              Unwrap(updated_signal.indicators))])
                   /\ m_pc' = "send"
              ELSE /\ m_pending' = None
                   /\ m_pc' = "recv"
    /\ UNCHANGED <<result_chan, emitLog, nSent, indicators_init>>

\* get_signals line 69: tx.send(signal).await
MergerSend ==
    /\ m_pc = "send"
    /\ Len(result_chan) < ResultChanCap
    /\ result_chan' = Append(result_chan, Unwrap(m_pending).signal)
    /\ emitLog' = Append(emitLog, Unwrap(m_pending))
    /\ m_pending' = None
    /\ m_pc' = "recv"
    /\ UNCHANGED <<signal_chan, last_signal, recvLog, nSent, indicators_init>>

\* main lines 170-173: the loop that prints every Signal
ConsumeSignal ==
    /\ Len(result_chan) > 0
    /\ result_chan' = Tail(result_chan)
    /\ UNCHANGED <<signal_chan, last_signal, m_pc, m_pending, recvLog,
                   emitLog, nSent, indicators_init>>

MergerNext ==
    \/ \E p \in MergerPrices : SendTick(p) /\ UNCHANGED <<fusionVars, gateVars, pipeVars, mainVars, snapVars, callVars, refreshVars>>
    \/ \E i \in MergerIndicators :
         SendIndicators(i) /\ UNCHANGED <<fusionVars, gateVars, pipeVars, mainVars, snapVars, callVars, refreshVars>>
    \/ MergerRecv /\ UNCHANGED <<fusionVars, gateVars, pipeVars, mainVars, snapVars, callVars, refreshVars>>
    \/ MergerSend /\ UNCHANGED <<fusionVars, gateVars, pipeVars, mainVars, snapVars, callVars, refreshVars>>
    \/ ConsumeSignal /\ UNCHANGED <<fusionVars, gateVars, pipeVars, mainVars, snapVars, callVars, refreshVars>>

----------------------------------------------------------------------------
(***************************************************************************)
(* Risk sizing.  Balances are whole multiples of 1000 base units, prices   *)
(* and ATR values are whole.  The code computes in f64 and truncates:      *)
(* where the exact value is whole the f64 result may lie just below it, so *)
(* the truncated value is drawn from the outcomes rounding can produce.    *)
(***************************************************************************)

leverage == 20            \* leverage.unwrap_or(20)
trade_gap_seconds == 5    \* load_config: trade_gap_seconds

Max(a, b) == IF a >= b THEN a ELSE b
Min(a, b) == IF a <= b THEN a ELSE b

\* calculate_trade_quantity without the upper limit of line 52
calculate_trade_quantity_NoUpper(balance_sats, entry_price, max_trades, atr, market_data) ==
    IF IsNone(atr) \/ ~(Unwrap(atr) > 0) THEN None
    ELSE LET num == (balance_sats \div 1000) * entry_price
             den == (100000 \div leverage) * 100 * max_trades * Unwrap(atr)
             lo  == market_data.limits.quantity.min
             q   == IF den = 0 THEN num ELSE num \div den
         IN  Some({Max(q, lo)})

\* calculate_trade_quantity that sizes without an ATR
calculate_trade_quantity_NoAtrCheck(balance_sats, entry_price, max_trades, atr, market_data) ==
    Some({market_data.limits.quantity.min})

\* calculate_trade_quantity: Ok as the set of values `final_quantity as u64`
\* can take, None for Err("ATR is required for the trade.").
\* adjusted_quantity = balance*entry/1e8 * 0.01 / max_trades * leverage / atr
\*                   = (balance/1000)*entry / ((100000/leverage)*100*max_trades*atr)
\* With max_trades = 0 the division is by 0.0: the quotient is infinite, or
\* NaN for 0.0/0.0, and f64::min returns its other argument for a NaN.
calculate_trade_quantity(balance_sats, entry_price, max_trades, atr, market_data) ==
    IF IsNone(atr) \/ ~(Unwrap(atr) > 0) THEN None
    ELSE LET num == (balance_sats \div 1000) * entry_price
             den == (100000 \div leverage) * 100 * max_trades * Unwrap(atr)
             lo  == market_data.limits.quantity.min
             hi  == market_data.limits.quantity.max
             q   == IF den = 0 THEN 0 ELSE num \div den
             clamp(x) == Max(Min(x, hi), lo)
         IN  Some(IF den = 0
                  THEN {IF num < 0 THEN Max(Min(num, hi), lo) ELSE Max(hi, lo)}
                  ELSE IF num % den = 0 /\ q > lo /\ q <= hi
                  THEN {q - 1, q}
                  ELSE {clamp(q)})

\* calculate_stoploss_takeprofit: its only failure
StoplossTakeprofitFails(atr_value) == atr_value <= 0

\* calculate_stoploss_takeprofit with the short computed as the long
calculate_stoploss_takeprofit_Unmirrored(entry_price, atr_value, lev, is_buy, risk_to_reward_ratio, risk_to_loss_ratio) ==
    IF StoplossTakeprofitFails(atr_value) THEN None
    ELSE Some(<<entry_price + atr_value * lev * risk_to_reward_ratio,
                entry_price - atr_value * lev * risk_to_loss_ratio>>)

\* calculate_stoploss_takeprofit: Ok((takeprofit, stoploss)) as Some, None
\* for Err("ATR value must be greater than 0.").  The arguments are whole
\* and small, so every f64 product and sum of the code is exact.
calculate_stoploss_takeprofit(entry_price, atr_value, lev, is_buy, risk_to_reward_ratio, risk_to_loss_ratio) ==
    IF StoplossTakeprofitFails(atr_value) THEN None
    ELSE LET distance            == atr_value * lev
             stoploss_distance   == distance * risk_to_loss_ratio
             takeprofit_distance == distance * risk_to_reward_ratio
             stoploss   == IF is_buy THEN entry_price - stoploss_distance
                                     ELSE entry_price + stoploss_distance
             takeprofit == IF is_buy THEN entry_price + takeprofit_distance
                                     ELSE entry_price - takeprofit_distance
         IN  Some(<<takeprofit, stoploss>>)

\* calculate_trade_params lines 19-24: margin_sats in half base units.
\* m = floor(quantity*1e8 / (entry*leverage)) exactly; the f64 floor may lose
\* one when the quotient is whole, and (x/1e8)*1e8 need not be whole again.
MarginSatsX2(trade_quantity, entry_price) ==
    LET m == (trade_quantity * 100000000) \div (entry_price * leverage)
    IN  {2 * m + d : d \in -3 .. 1}

\* lines 26-34: the fee of the last tier with min_volume <= margin_sats as u64
FeeTier(margin_x2, market_data) ==
    LET tiers == market_data.fees.trading.tiers
        ok    == {i \in DOMAIN tiers : margin_x2 \div 2 >= tiers[i].min_volume}
    IN  IF ok = {} THEN None
        ELSE Some(tiers[CHOOSE i \in ok : \A j \in ok : j <= i].fees)

NoFeeTier    == "Err: No matching fee tier found"
BadTradeType == "Err: Invalid trade type, expected 'b' for Buy or 's' for Sell"

\* calculate_trade_params lines 13-62, as the set of results the f64 margin
\* allows: the margin, the fee rate looked up for it, and Ok or the Err
calculate_trade_params(trade_type, entry_price, trade_quantity, market_data) ==
    {[margin_x2        |-> margin_x2,
      trading_fee_rate |-> FeeTier(margin_x2, market_data),
      result           |-> IF IsNone(FeeTier(margin_x2, market_data))
                             THEN NoFeeTier
                           ELSE IF trade_type \notin {"b", "s"}
                             THEN BadTradeType
                           ELSE "Ok"] :
       margin_x2 \in MarginSatsX2(trade_quantity, entry_price)}

----------------------------------------------------------------------------
(***************************************************************************)
(* SpecGate: process_signals receives a signal with its indicators (of     *)
(* which only the ATR is used), and when the gap has elapsed spawns a      *)
(* create_trade_from_signal run.  A run holds the Mutex<BotParams> from    *)
(* its first line to its return; every await of a collaborator is a step   *)
(* of its own and may fail.  Running trades of the account close on the    *)
(* exchange at any time.                                                   *)
(***************************************************************************)

MaxTime == 11             \* seconds of clock the model follows

\* SignalResponse: the signal and the ATR of its indicators
GateSignals ==
    {<<"Hold", Some(1000)>>, <<"Undefined", Some(1000)>>,
     <<"Buy", None>>, <<"Buy", Some(0)>>, <<"Buy", Some(1000)>>,
     <<"StrongSell", Some(1000)>>}
Balances    == {5000, 6000, 1000000000}
Tickers     == {[ask_price |-> 1000, bid_price |-> 800]}

FuturesMarket(count_max, tiers) ==
    [limits |-> [quantity |-> [min |-> 1, max |-> 5],
                 count |-> [max |-> count_max]],
     fees |-> [trading |-> [tiers |-> tiers]]]

Markets ==
    {FuturesMarket(2, <<[min_volume |-> 0, fees |-> 10],
                        [min_volume |-> 6000, fees |-> 8]>>),
     FuturesMarket(1, <<[min_volume |-> 6000, fees |-> 8]>>)}

\* CreateTradeResult / Err, by its message
TradeCreated        == "TradeCreated"
ErrFetchTrades      == "NoTradeCreated: Error fetching active trades"
TradeLimit          == "NoTradeCreated: Trade limit reached"
ErrFetchUser        == "Err: Error fetching user data"
ErrFetchTicker      == "Err: Error fetching futures ticker"
HoldReceived        == "NoTradeCreated: Hold signal received on create_trade"
NoValidSignal       == "NoTradeCreated: No valid trading signal"
ErrQuantity         == "Err: Error calculating trade quantity"
ErrStoploss         == "Err: Error calculating stoploss/takeprofit"
ErrTradeParams      == "Err: Error calculating trade parameters"
InsufficientBalance == "NoTradeCreated: Insufficient balance for creating a trade"
ErrCreateOrder      == "Err: Error creating order"
UndefinedReceived   == "NoTradeCreated: Undefined signal received on create_trade"
Panicked            == "panic: unwrap on a None market_data"
PanickedAtr         == "panic: unwrap on a None atr"

\* process_signals line 32
GapElapsed(t, last) == t - last >= trade_gap_seconds

\* NextLastTradeTime without the assignment of line 33
NextLastTradeTime_Kept(t, last) == last

\* process_signals line 33
NextLastTradeTime(t, last) == t

\* TradeLimitReached with > for >=
TradeLimitReached_Above(active_trades, max_trades) == active_trades > max_trades

\* create_trade_from_signal line 56
TradeLimitReached(active_trades, max_trades) == active_trades >= max_trades

\* TradeType with a catch-all arm that sells
TradeType_CatchAllSell(signal) ==
    CASE signal \in {"Buy", "StrongBuy"} -> "b"
      [] signal = "Hold"                 -> HoldReceived
      [] OTHER                           -> "s"

\* lines 73-86: the trade type of a signal, or the reason there is none
TradeType(signal) ==
    CASE signal \in {"Buy", "StrongBuy"}   -> "b"
      [] signal \in {"Sell", "StrongSell"} -> "s"
      [] signal = "Hold"                   -> HoldReceived
      [] OTHER                             -> NoValidSignal

\* lines 135-185: the arm of the second match on the signal
ExecuteArm(signal) ==
    CASE signal \in {"Buy", "StrongBuy"}   -> "b"
      [] signal \in {"Sell", "StrongSell"} -> "s"
      [] signal = "Hold"                   -> HoldReceived
      [] OTHER                             -> UndefinedReceived

EntryPrice(signal, ticker) ==
    IF signal \in {"Buy", "StrongBuy"} THEN ticker.ask_price
                                       ELSE ticker.bid_price

\* BalanceTooLow with < for <=
BalanceTooLow_Strict(balance, margin_x2) == 2 * balance < margin_x2

\* lines 137 and 156, margin in half base units
BalanceTooLow(balance, margin_x2) == 2 * balance <= margin_x2

\* LockFree when the mutex admits a run whoever holds it
LockFree_Always(holder) == TRUE

\* whether a run takes the lock or runs without waiting for it
LockFree(holder) == holder = 0

\* the locals of a run; covered: history, whether the balance it fetched
\* exceeds the margin it computed (TRUE until it has both)
NoTask == [pc |-> "none", signal |-> "Hold", atr |-> None, balance |-> 0,
           trade_type |-> "", quantity |-> 0, margin_x2 |-> 0, result |-> "",
           covered |-> TRUE]

GateInit ==
    /\ now = 0
    /\ last_trade_time = 0
    /\ tasks = <<>>
    /\ bot_lock = 0
    /\ market \in {None} \cup {Some(m) : m \in Markets}
    /\ running \in 0 .. 2
    /\ orders = <<>>
    /\ approvals = <<>>
    /\ f_price = 0 /\ f_ind = None /\ f_pc = "idle"
    /\ f_value = None /\ f_signal = None
    /\ indicators_init = None /\ signal_chan = <<>> /\ last_signal = None
    /\ m_pc = "idle" /\ m_pending = None /\ result_chan = <<>>
    /\ recvLog = <<>> /\ emitLog = <<>> /\ nSent = 0
    /\ ws_count = 0 /\ reader_pc = "idle" /\ price_chan = <<>>
    /\ fwd_pc = "idle" /\ fwd_tick = 0 /\ bars = 0 /\ ud_pc = "idle"
    /\ senders = <<>> /\ ohlc_lock = 0 /\ rx_chan = <<>> /\ ind_pc = "idle"
    /\ ind_data = 0 /\ stored = None /\ params_lock = "free"
    /\ tx_lock = "free" /\ ticks_recv = 0 /\ tick_gap = FALSE
    /\ snap_last = 0 /\ snap_back = FALSE /\ snaps_sent = 0
    /\ snaps_recv = 0
    /\ main_pc = "idle" /\ task = <<>> /\ shutdown_chan = 0
    /\ snapshot = None /\ computed = None /\ previous = None /\ updates = 0
    /\ fn_call = None /\ fn_ret = None
    /\ ohlc_data = <<>> /\ startup_data = <<>> /\ rf_pc = "idle"
    /\ rf_lock = "free" /\ rf_waiting = 0 /\ rf_chan = <<>>
    /\ rf_last = None /\ rf_errors = 0

\* the clock advances
Tick ==
    /\ now < MaxTime
    /\ now' = now + 1
    /\ UNCHANGED <<last_trade_time, tasks, bot_lock, market, running, orders,
                   approvals>>

\* process_signals lines 23-71, one iteration of the loop
ProcessSignal(signal, atr) ==
    /\ IF GapElapsed(now, last_trade_time)
       THEN /\ last_trade_time' = NextLastTradeTime(now, last_trade_time)
            /\ tasks' = Append(tasks, [NoTask EXCEPT !.pc = "lock",
                                                     !.signal = signal,
                                                     !.atr = atr])
            /\ approvals' = Append(approvals,
                                   [at |-> now, before |-> last_trade_time,
                                    after |-> last_trade_time'])
       ELSE UNCHANGED <<last_trade_time, tasks, approvals>>
    /\ UNCHANGED <<now, bot_lock, market, running, orders>>

\* a run returns: its locals are dropped, the MutexGuard with them
Return(t, result, covered) ==
    /\ tasks' = [tasks EXCEPT ![t] =
                   [NoTask EXCEPT !.pc = "done", !.signal = tasks[t].signal,
                                  !.result = result, !.covered = covered]]
    /\ bot_lock' = 0

\* lines 36-37: bot_params.lock().await, then market_data.as_ref().unwrap()
Lock(t) ==
    /\ tasks[t].pc = "lock"
    /\ LockFree(bot_lock)
    /\ IF IsNone(market)
       THEN Return(t, Panicked, TRUE)
       ELSE /\ tasks' = [tasks EXCEPT ![t].pc = "get_trades"]
            /\ bot_lock' = t
    /\ UNCHANGED <<now, last_trade_time, market, running, orders, approvals>>

\* lines 47-60: get_trades answers with the running trades
GetTradesOk(t) ==
    /\ tasks[t].pc = "get_trades"
    /\ IF TradeLimitReached(running, Unwrap(market).limits.count.max)
       THEN Return(t, TradeLimit, TRUE)
       ELSE /\ tasks' = [tasks EXCEPT ![t].pc = "get_user"]
            /\ UNCHANGED bot_lock
    /\ UNCHANGED <<now, last_trade_time, market, running, orders, approvals>>

\* lines 49-54
GetTradesErr(t) ==
    /\ tasks[t].pc = "get_trades"
    /\ Return(t, ErrFetchTrades, TRUE)
    /\ UNCHANGED <<now, last_trade_time, market, running, orders, approvals>>

\* lines 63-66
GetUserOk(t, balance) ==
    /\ tasks[t].pc = "get_user"
    /\ tasks' = [tasks EXCEPT ![t].pc = "ticker", ![t].balance = balance]
    /\ UNCHANGED <<now, last_trade_time, bot_lock, market, running, orders,
                   approvals>>

GetUserErr(t) ==
    /\ tasks[t].pc = "get_user"
    /\ Return(t, ErrFetchUser, TRUE)
    /\ UNCHANGED <<now, last_trade_time, market, running, orders, approvals>>

\* lines 67-141 / 156-160: the ticker answers; the signal is matched, the
\* trade is sized and the balance is checked, without a further await
TickerOk(t, ticker) ==
    /\ tasks[t].pc = "ticker"
    /\ LET me          == tasks[t]
           trade_type  == TradeType(me.signal)
           entry_p     == EntryPrice(me.signal, ticker)
           market_data == Unwrap(market)
           quantity    == calculate_trade_quantity(
                              me.balance, entry_p,
                              market_data.limits.count.max, me.atr, market_data)
       IN  IF trade_type \notin {"b", "s"} THEN Return(t, trade_type, TRUE)
           ELSE IF IsNone(quantity) THEN Return(t, ErrQuantity, TRUE)
           ELSE IF IsNone(me.atr) THEN Return(t, PanickedAtr, TRUE)
           ELSE IF StoplossTakeprofitFails(Unwrap(me.atr))
                THEN Return(t, ErrStoploss, TRUE)
           ELSE \E q \in Unwrap(quantity) :
                \E margin_x2 \in MarginSatsX2(q, entry_p) :
                  IF IsNone(FeeTier(margin_x2, market_data))
                  THEN Return(t, ErrTradeParams, TRUE)
                  ELSE IF ExecuteArm(me.signal) \notin {"b", "s"}
                  THEN Return(t, ExecuteArm(me.signal), TRUE)
                  ELSE IF BalanceTooLow(me.balance, margin_x2)
                  THEN Return(t, InsufficientBalance,
                              2 * me.balance > margin_x2)
                  ELSE /\ tasks' = [tasks EXCEPT ![t].pc = "order",
                                                 ![t].trade_type = trade_type,
                                                 ![t].quantity = q,
                                                 ![t].margin_x2 = margin_x2,
                                                 ![t].covered =
                                                     2 * me.balance > margin_x2]
                       /\ UNCHANGED bot_lock
    /\ UNCHANGED <<now, last_trade_time, market, running, orders, approvals>>

\* lines 67-70
TickerErr(t) ==
    /\ tasks[t].pc = "ticker"
    /\ Return(t, ErrFetchTicker, TRUE)
    /\ UNCHANGED <<now, last_trade_time, market, running, orders, approvals>>

\* the order-placement call as the exchange sees it
\* the order-placement call: which run made it, for which signal, whether
\* the running trades were below the maximum and the balance above the
\* margin when it was made, and whether the exchange accepted it
OrderCall(t, accepted) ==
    [task |-> t, signal |-> tasks[t].signal, side |-> tasks[t].trade_type,
     below_limit |-> running < Unwrap(market).limits.count.max,
     covered |-> tasks[t].covered, accepted |-> accepted]

\* lines 142-153 / 161-172: create_market_buy_order / create_market_sell_order
PlaceOrderOk(t) ==
    /\ tasks[t].pc = "order"
    /\ orders' = Append(orders, OrderCall(t, TRUE))
    /\ running' = running + 1
    /\ Return(t, TradeCreated, TRUE)
    /\ UNCHANGED <<now, last_trade_time, market, approvals>>

PlaceOrderErr(t) ==
    /\ tasks[t].pc = "order"
    /\ orders' = Append(orders, OrderCall(t, FALSE))
    /\ Return(t, ErrCreateOrder, TRUE)
    /\ UNCHANGED <<now, last_trade_time, market, running, approvals>>

\* the exchange closes a running trade (stop-loss, take-profit, liquidation)
CloseTrade ==
    /\ running > 0
    /\ running' = running - 1
    /\ UNCHANGED <<now, last_trade_time, tasks, bot_lock, market, orders,
                   approvals>>

GateNext ==
    \/ Tick /\ UNCHANGED <<fusionVars, mergerVars, pipeVars, mainVars, snapVars, callVars, refreshVars>>
    \/ \E r \in GateSignals :
         ProcessSignal(r[1], r[2]) /\ UNCHANGED <<fusionVars, mergerVars, pipeVars, mainVars, snapVars, callVars, refreshVars>>
    \/ \E t \in DOMAIN tasks : Lock(t) /\ UNCHANGED <<fusionVars, mergerVars, pipeVars, mainVars, snapVars, callVars, refreshVars>>
    \/ \E t \in DOMAIN tasks : GetTradesOk(t) /\ UNCHANGED <<fusionVars, mergerVars, pipeVars, mainVars, snapVars, callVars, refreshVars>>
    \/ \E t \in DOMAIN tasks : GetTradesErr(t) /\ UNCHANGED <<fusionVars, mergerVars, pipeVars, mainVars, snapVars, callVars, refreshVars>>
    \/ \E t \in DOMAIN tasks, b \in Balances :
         GetUserOk(t, b) /\ UNCHANGED <<fusionVars, mergerVars, pipeVars, mainVars, snapVars, callVars, refreshVars>>
    \/ \E t \in DOMAIN tasks : GetUserErr(t) /\ UNCHANGED <<fusionVars, mergerVars, pipeVars, mainVars, snapVars, callVars, refreshVars>>
    \/ \E t \in DOMAIN tasks, tk \in Tickers :
         TickerOk(t, tk) /\ UNCHANGED <<fusionVars, mergerVars, pipeVars, mainVars, snapVars, callVars, refreshVars>>
    \/ \E t \in DOMAIN tasks : TickerErr(t) /\ UNCHANGED <<fusionVars, mergerVars, pipeVars, mainVars, snapVars, callVars, refreshVars>>
    \/ \E t \in DOMAIN tasks : PlaceOrderOk(t) /\ UNCHANGED <<fusionVars, mergerVars, pipeVars, mainVars, snapVars, callVars, refreshVars>>
    \/ \E t \in DOMAIN tasks : PlaceOrderErr(t) /\ UNCHANGED <<fusionVars, mergerVars, pipeVars, mainVars, snapVars, callVars, refreshVars>>
    \/ CloseTrade /\ UNCHANGED <<fusionVars, mergerVars, pipeVars, mainVars, snapVars, callVars, refreshVars>>

----------------------------------------------------------------------------
(* The specifications of the three parts above.  Each starts the other    *)
(* parts idle.                                                            *)

SpecFusion == FusionInit /\ [][FusionNext]_vars
SpecMerger == MergerInit /\ [][MergerNext]_vars
SpecGate   == GateInit /\ [][GateNext]_vars

----------------------------------------------------------------------------
(* Properties of get_signals, under SpecMerger *)

PriceSeenBy(k) == \E i \in 1 .. k : IsSome(recvLog[i].price_data)
IndicatorsSeenBy(k) == \E i \in 1 .. k : IsSome(recvLog[i].indicators)

\* signals computed for the k-th received message, sent or waiting at tx.send
EmittedFor(k) ==
    Cardinality({j \in DOMAIN emitLog : emitLog[j].at = k})
    + (IF m_pc = "send" /\ Unwrap(m_pending).at = k THEN 1 ELSE 0)

\* C1: get_signals emits no signal for a message received while the price
\* slot or the indicator slot has never been populated, exactly one signal
\* for every message received once both have been, and the signals follow
\* the order of the messages (a skipped message is never fused later).
C1_OneSignalPerMessageOnceBothSeen ==
    /\ \A k \in DOMAIN recvLog :
         EmittedFor(k) = IF PriceSeenBy(k) /\ IndicatorsSeenBy(k) THEN 1 ELSE 0
    /\ \A i, j \in DOMAIN emitLog : i < j => emitLog[i].at < emitLog[j].at

\* a message was skipped for want of a slot, and two later ones were fused
C1_Witness ==
    /\ Len(emitLog) >= 2
    /\ \E k \in DOMAIN recvLog : ~(PriceSeenBy(k) /\ IndicatorsSeenBy(k))

\* the value of the most recent of the first k messages that carried the slot
LastPriceBy(k) ==
    LET S == {i \in 1 .. k : IsSome(recvLog[i].price_data)}
    IN  IF S = {} THEN None
        ELSE recvLog[CHOOSE i \in S : \A j \in S : j <= i].price_data

LastIndicatorsBy(k) ==
    LET S == {i \in 1 .. k : IsSome(recvLog[i].indicators)}
    IN  IF S = {} THEN None
        ELSE recvLog[CHOOSE i \in S : \A j \in S : j <= i].indicators

\* C2: every emitted signal is computed from the value of the message just
\* received for its own slot and from the most recent earlier value of the
\* other slot; the retained slots always hold the most recent value carried
\* (never overwritten by a message without it, never empty once populated).
C2_FusedFromLatestOfEachSlot ==
    /\ \A j \in DOMAIN emitLog :
         /\ emitLog[j].price_data = LastPriceBy(emitLog[j].at)
         /\ emitLog[j].indicators = LastIndicatorsBy(emitLog[j].at)
    /\ m_pc = "send" =>
         /\ Unwrap(m_pending).price_data = LastPriceBy(Len(recvLog))
         /\ Unwrap(m_pending).indicators = LastIndicatorsBy(Len(recvLog))
    /\ IsSome(last_signal) =>
         /\ Unwrap(last_signal).price_data = LastPriceBy(Len(recvLog))
         /\ Unwrap(last_signal).indicators = LastIndicatorsBy(Len(recvLog))

\* a signal fused from a snapshot retained across two price messages
C2_Witness ==
    \E j \in DOMAIN emitLog :
      LET k == emitLog[j].at
      IN  /\ k >= 3
          /\ IsNone(recvLog[k].indicators)
          /\ IsNone(recvLog[k - 1].indicators)
          /\ recvLog[k].price_data # recvLog[k - 1].price_data

----------------------------------------------------------------------------
(* Properties of the gate, under SpecGate *)

Done(t) == tasks[t].pc = "done"

\* C3: process_signals never starts two create_trade_from_signal runs less
\* than trade_gap_seconds apart.
C3_ApprovalsGapApart ==
    \A i, j \in DOMAIN approvals :
      i < j => approvals[j].at - approvals[i].at >= trade_gap_seconds

\* two runs were started
C3_Witness == Len(approvals) >= 2

\* C4: order placement is never called while the running trades are at or
\* above the market's maximum, also with several runs in progress; a run
\* whose get_trades answer is at or above the maximum returns
\* NoTradeCreated("Trade limit reached").
C4_NoOrderAtTradeLimit ==
    /\ [](\A j \in DOMAIN orders : orders[j].below_limit)
    /\ [][\A t \in DOMAIN tasks :
            (/\ tasks[t].pc = "get_trades"
             /\ tasks'[t].pc \notin {"get_trades", "done"})
            => running < Unwrap(market).limits.count.max]_vars
    /\ [][\A t \in DOMAIN tasks :
            (/\ tasks[t].pc = "get_trades"
             /\ running >= Unwrap(market).limits.count.max
             /\ tasks'[t].pc = "done")
            => tasks'[t].result \in {TradeLimit, ErrFetchTrades}]_vars

\* one run placed an order while a second one, started during it, was told
\* that the limit is reached
C4_Witness ==
    /\ Len(orders) >= 1
    /\ \E t \in DOMAIN tasks : Done(t) /\ tasks[t].result = TradeLimit
    /\ \E t \in DOMAIN tasks : Done(t) /\ tasks[t].result = TradeCreated

\* C5 as claimed: the directional check comes first, so a Hold or Undefined
\* signal ends the evaluation before the count check and is never answered
\* with "Trade limit reached".
C5_HoldEndsBeforeCountCheck ==
    \A t \in DOMAIN tasks :
      tasks[t].signal \in {"Hold", "Undefined"} /\ Done(t)
      => tasks[t].result # TradeLimit

\* C6 as claimed: a Hold or Undefined signal, which ends in no trade, leaves
\* last_trade_time unchanged.
C6_NoTradeKeepsLastTradeTime ==
    \A t \in DOMAIN tasks :
      (/\ Done(t)
       /\ tasks[t].signal \in {"Hold", "Undefined"}
       /\ tasks[t].result \in {HoldReceived, NoValidSignal})
      => approvals[t].after = approvals[t].before

\* C7: no order-placement call is made for a Hold or an Undefined signal,
\* and a run for either ends in NoTradeCreated at the match on the signal
\* (or earlier, at a failed fetch or the trade limit): it is never sized.
C7_HoldAndUndefinedPlaceNoOrder ==
    /\ \A j \in DOMAIN orders : orders[j].signal \notin {"Hold", "Undefined"}
    /\ \A t \in DOMAIN tasks :
         tasks[t].signal \in {"Hold", "Undefined"} =>
           /\ tasks[t].pc # "order"
           /\ Done(t) => tasks[t].result \in
                           {HoldReceived, NoValidSignal, TradeLimit,
                            ErrFetchTrades, ErrFetchUser, ErrFetchTicker,
                            Panicked}

\* a Hold run and an Undefined run both reached the match on the signal
C7_Witness ==
    /\ \E t \in DOMAIN tasks :
         Done(t) /\ tasks[t].signal = "Hold" /\ tasks[t].result = HoldReceived
    /\ \E t \in DOMAIN tasks :
         /\ Done(t) /\ tasks[t].signal = "Undefined"
         /\ tasks[t].result = NoValidSignal
    /\ orders = <<>>

\* C8: an order is placed only when the balance fetched by the run is
\* strictly greater than the margin it computed; a run whose balance is at
\* or below the margin places none and returns "Insufficient balance for
\* creating a trade".
C8_OrderOnlyWhenBalanceAboveMargin ==
    /\ \A j \in DOMAIN orders : orders[j].covered
    /\ \A t \in DOMAIN tasks :
         /\ tasks[t].pc = "order" => tasks[t].covered
         /\ Done(t) /\ tasks[t].result = InsufficientBalance
              => ~tasks[t].covered
         /\ Done(t) /\ ~tasks[t].covered
              => tasks[t].result = InsufficientBalance

\* one run was refused for its balance, another placed its order
C8_Witness ==
    /\ \E t \in DOMAIN tasks : Done(t) /\ tasks[t].result = InsufficientBalance
    /\ \E j \in DOMAIN orders : orders[j].accepted /\ orders[j].covered

\* an ATR calculate_trade_quantity refuses: absent or not positive
AtrUnusable(atr) == IsNone(atr) \/ ~(Unwrap(atr) > 0)

\* the runs between their count check and their order placement: from the
\* get_trades call to the return
BetweenCheckAndOrder ==
    {t \in DOMAIN tasks :
       tasks[t].pc \in {"get_trades", "get_user", "ticker", "order"}}

\* C30: at most one run of create_trade_from_signal is between its fetch of
\* the running-trade count and its order placement, and that run holds the
\* bot-parameters lock; so a run passes the count check only when every
\* other run is waiting for the lock or has returned, and no two runs pass
\* it against the same fetched count.
C30_CheckAndOrderUnderOneLock ==
    /\ Cardinality(BetweenCheckAndOrder) <= 1
    /\ \A t \in BetweenCheckAndOrder : bot_lock = t
    /\ \A t \in DOMAIN tasks :
         tasks[t].pc \in {"get_user", "ticker", "order"} =>
           \A u \in DOMAIN tasks \ {t} : tasks[u].pc \in {"lock", "done"}

\* two approved signals: the run of one is about to place its order while
\* the run of the other waits for the lock
C30_Witness ==
    \E t, u \in DOMAIN tasks :
      /\ tasks[t].pc = "order"
      /\ tasks[u].pc = "lock"
      /\ bot_lock = t

\* C22: with an absent or non-positive ATR sizing fails closed.  A run whose
\* ticker fetch succeeded for a directional signal ends there with "Error
\* calculating trade quantity" (calculate_trade_quantity returned its Err);
\* no run with such an ATR comes to the order placement, and none reaches
\* the unwrap of the ATR for the stop/target computation with the ATR absent.
C22_SizingFailsClosedWithoutAtr ==
    /\ [](\A t \in DOMAIN tasks :
            /\ tasks[t].pc = "order" => ~AtrUnusable(tasks[t].atr)
            /\ Done(t) => tasks[t].result # PanickedAtr)
    /\ [][\A t \in DOMAIN tasks :
            (/\ tasks[t].pc = "ticker"
             /\ AtrUnusable(tasks[t].atr)
             /\ TradeType(tasks[t].signal) \in {"b", "s"}
             /\ tasks'[t].pc # "ticker")
            => /\ tasks'[t].pc = "done"
               /\ tasks'[t].result \in {ErrQuantity, ErrFetchTicker}
               /\ orders' = orders]_vars

\* two runs for a directional signal ended in the sizing error, and no
\* order was placed
C22_Witness ==
    /\ Len(tasks) >= 2
    /\ \A t \in 1 .. 2 : Done(t) /\ tasks[t].result = ErrQuantity
    /\ orders = <<>>

----------------------------------------------------------------------------
(* Properties of the fusion function, under SpecFusion *)

\* the validation of the specification: tick price > 0, Bollinger values
\* >= 0, 0 <= RSI <= 100, MA, EMA and ATR >= 0, for the values present
ValidationFails(price, ind) ==
    \/ price <= 0
    \/ /\ IsSome(ind.ohlc_bollinger_bands)
       /\ \E i \in 1 .. 3 : Unwrap(ind.ohlc_bollinger_bands)[i] < 0
    \/ IsSome(ind.ohlc_rsi)
         /\ (Unwrap(ind.ohlc_rsi) < 0 \/ Unwrap(ind.ohlc_rsi) > 100)
    \/ IsSome(ind.ohlc_ma) /\ Unwrap(ind.ohlc_ma) < 0
    \/ IsSome(ind.ohlc_ema) /\ Unwrap(ind.ohlc_ema) < 0
    \/ IsSome(ind.atr) /\ Unwrap(ind.atr) < 0

TableBollinger(price, bb) ==
    IF IsNone(bb) THEN 0
    ELSE IF price > Unwrap(bb)[3] + gap_value THEN -2 * 25
    ELSE IF price < Unwrap(bb)[1] - gap_value THEN 2 * 25
    ELSE IF price > Unwrap(bb)[3] THEN -25
    ELSE IF price < Unwrap(bb)[1] THEN 25
    ELSE 0

TableRsi(rsi) ==
    IF IsNone(rsi) THEN 0
    ELSE IF Unwrap(rsi) > 80 THEN -2 * 30
    ELSE IF Unwrap(rsi) > 70 THEN -30
    ELSE IF Unwrap(rsi) < 20 THEN 2 * 30
    ELSE IF Unwrap(rsi) < 30 THEN 30
    ELSE 0

TableAverage(price, avg) ==
    IF IsNone(avg) THEN 0
    ELSE IF price > Unwrap(avg) + gap_value THEN -2 * 20
    ELSE IF price > Unwrap(avg) THEN -20
    ELSE IF price < Unwrap(avg) - gap_value THEN 2 * 20
    ELSE IF price < Unwrap(avg) THEN 20
    ELSE 0

\* hv = 0.005 price, buyT = 1.5 hv, sellT = 1.75 hv, compared times 800
TableAtr(price, atr) ==
    IF IsNone(atr) THEN 0
    ELSE LET a     == 800 * Unwrap(atr)
             p     == 800 * price
             hv    == 4 * price
             buyT  == 6 * price
             sellT == 7 * price
         IN  IF a > sellT /\ p > a + sellT THEN -2 * 25
             ELSE IF a > sellT /\ p < a - buyT THEN 2 * 25
             ELSE IF a > hv /\ p > a THEN -25
             ELSE IF a > hv /\ p < a THEN 25
             ELSE 0

TableScore(price, ind) ==
    TableBollinger(price, ind.ohlc_bollinger_bands) + TableRsi(ind.ohlc_rsi)
    + TableAverage(price, ind.ohlc_ma) + TableAverage(price, ind.ohlc_ema)
    + TableAtr(price, ind.atr)

TableCategory(score) ==
    IF score >= 155 THEN 2
    ELSE IF score > 20 THEN 1
    ELSE IF score <= -155 THEN -2
    ELSE IF score < -20 THEN -1
    ELSE 0

\* C10 as claimed: for inputs that pass validation the function returns the
\* category of the sum of the table's contributions (>= 1.55 StrongBuy,
\* > 0.2 Buy, <= -1.55 StrongSell, < -0.2 Sell, otherwise Hold).
C10_ReturnsCategoryOfTableSum ==
    f_pc # "call" /\ ~ValidationFails(f_price, f_ind)
    => f_value = Some(TableCategory(TableScore(f_price, f_ind)))


\* C11: an indicator absent from the snapshot contributes nothing: for valid
\* input, making absent an indicator whose present value contributes 0 in
\* the scoring table leaves the returned category unchanged, and a snapshot
\* with no indicator at all yields 0 (Hold).
C11_AbsentIndicatorContributesNothing ==
    f_pc # "call" /\ ~ValidationFails(f_price, f_ind) =>
      /\ IsSome(f_ind.ohlc_bollinger_bands)
           /\ TableBollinger(f_price, f_ind.ohlc_bollinger_bands) = 0
         => calculate_ohlc_with_price_signal(
              f_price, [f_ind EXCEPT !.ohlc_bollinger_bands = None])
            = Unwrap(f_value)
      /\ IsSome(f_ind.ohlc_rsi) /\ TableRsi(f_ind.ohlc_rsi) = 0
         => calculate_ohlc_with_price_signal(
              f_price, [f_ind EXCEPT !.ohlc_rsi = None]) = Unwrap(f_value)
      /\ IsSome(f_ind.ohlc_ma) /\ TableAverage(f_price, f_ind.ohlc_ma) = 0
         => calculate_ohlc_with_price_signal(
              f_price, [f_ind EXCEPT !.ohlc_ma = None]) = Unwrap(f_value)
      /\ IsSome(f_ind.ohlc_ema) /\ TableAverage(f_price, f_ind.ohlc_ema) = 0
         => calculate_ohlc_with_price_signal(
              f_price, [f_ind EXCEPT !.ohlc_ema = None]) = Unwrap(f_value)
      /\ IsSome(f_ind.atr) /\ TableAtr(f_price, f_ind.atr) = 0
         => calculate_ohlc_with_price_signal(
              f_price, [f_ind EXCEPT !.atr = None]) = Unwrap(f_value)
      /\ f_ind = Indicators(None, None, None, None, None)
         => f_value = Some(0)

\* a Buy computed from a snapshot whose RSI and MA are present and neutral
C11_Witness ==
    /\ f_pc = "done"
    /\ f_price = 1000
    /\ f_ind.ohlc_rsi = Some(50)
    /\ f_ind.ohlc_ma = Some(1000)
    /\ f_value = Some(1)

\* the scenario of a strong buy: every indicator at its strongest buy
\* reading, the ATR present and not above 0.005 x price
StrongBuyScenario(price, ind) ==
    /\ IsSome(ind.ohlc_bollinger_bands)
    /\ price < Unwrap(ind.ohlc_bollinger_bands)[1] - gap_value
    /\ IsSome(ind.ohlc_rsi) /\ Unwrap(ind.ohlc_rsi) < 20
    /\ IsSome(ind.ohlc_ma) /\ price < Unwrap(ind.ohlc_ma) - gap_value
    /\ IsSome(ind.ohlc_ema) /\ price < Unwrap(ind.ohlc_ema) - gap_value
    /\ IsSome(ind.atr) /\ 200 * Unwrap(ind.atr) <= price

StrongSellScenario(price, ind) ==
    /\ IsSome(ind.ohlc_bollinger_bands)
    /\ price > Unwrap(ind.ohlc_bollinger_bands)[3] + gap_value
    /\ IsSome(ind.ohlc_rsi) /\ Unwrap(ind.ohlc_rsi) > 80
    /\ IsSome(ind.ohlc_ma) /\ price > Unwrap(ind.ohlc_ma) + gap_value
    /\ IsSome(ind.ohlc_ema) /\ price > Unwrap(ind.ohlc_ema) + gap_value
    /\ IsSome(ind.atr) /\ 200 * Unwrap(ind.atr) <= price

\* C13 as claimed: whenever the price is above the upper band plus the gap,
\* RSI above 80, the price above MA and EMA plus the gap, and the ATR not
\* above 0.005 x price, the function returns StrongSell (-2).
C13_StrongSellScenarioReturnsMinus2 ==
    f_pc # "call" /\ StrongSellScenario(f_price, f_ind) => f_value = Some(-2)

\* C13 amended: the same, for input that passes validation (in particular
\* an RSI of at most 100 and non-negative bands, MA, EMA and ATR).
C13_ValidStrongSellScenarioReturnsMinus2 ==
    (/\ f_pc # "call"
     /\ StrongSellScenario(f_price, f_ind)
     /\ ~ValidationFails(f_price, f_ind))
    => f_value = Some(-2)

\* a valid strong-sell scenario was evaluated
C13_Witness ==
    /\ f_pc = "done"
    /\ StrongSellScenario(f_price, f_ind)
    /\ ~ValidationFails(f_price, f_ind)
    /\ f_signal = Some("StrongSell")

\* C14: the function returns 0 whenever the tick price is not positive or a
\* present indicator is out of range, whatever the other indicators are;
\* the signal made of it is not directional, so neither match of
\* create_trade_from_signal takes an order arm for it.
C14_InvalidInputReturnsZero ==
    ValidationFails(f_price, f_ind) =>
      /\ f_pc # "call" => Unwrap(f_value) = 0
      /\ f_pc = "done" =>
           /\ Unwrap(f_signal) \notin {"Buy", "StrongBuy", "Sell", "StrongSell"}
           /\ TradeType(Unwrap(f_signal)) \notin {"b", "s"}
           /\ ExecuteArm(Unwrap(f_signal)) \notin {"b", "s"}

\* a negative ATR next to indicators that would otherwise give a strong buy
C14_Witness ==
    /\ f_pc = "done"
    /\ f_price = 1000
    /\ f_ind.atr = Some(-1)
    /\ f_ind.ohlc_rsi = Some(10)
    /\ f_ind.ohlc_ma = Some(1020)
    /\ f_ind.ohlc_ema = Some(1020)
    /\ f_ind.ohlc_bollinger_bands = Some(<<1020, 1050, 1100>>)
    /\ f_value = Some(0)


----------------------------------------------------------------------------
(***************************************************************************)
(* SpecPipeline: the tasks main spawns around get_signals.  The WebSocket  *)
(* reader task of ws_price_feed puts ticks on the price channel, the tick  *)
(* forwarder moves them to the signal channel; update_data extends the     *)
(* shared OHLC series and spawns one sender task per refresh, the          *)
(* indicator task turns each series it receives into the stored snapshot   *)
(* and puts a copy on the signal channel.  A tick is its number, a series  *)
(* or snapshot is the time of its last bar.  get_signals is the receive    *)
(* and the merge of lines 41-56; what it emits is the subject of           *)
(* SpecMerger.                                                             *)
(***************************************************************************)

MaxTicks == 27            \* ticks the WebSocket delivers in a run in which
                          \* the refresh tasks were not started
MaxTicksRefreshing == 2   \* the same, in a run with the refresh tasks
MaxRefresh == 2           \* refreshes that bring new bars in a run

\* the ticks explored from a state: both channels fill within MaxTicks
TickBound(indicators) ==
    IF IsSome(indicators) THEN MaxTicksRefreshing ELSE MaxTicks

PriceChanCap == 10        \* mpsc::channel(10)
OhlcChanCap == 5          \* mpsc::channel::<Vec<OhlcHistoryEntry>>(5)

\* a send that does not wait for room
CanSend_Always(chan, cap) == TRUE

\* a send that never finds room
CanSend_Never(chan, cap) == FALSE

\* Sender::send(..).await completes only when the channel has room
CanSend(chan, cap) == Len(chan) < cap

\* the series as it was when the sender task was spawned
SenderPayload_AtSpawn(spawned, current) == spawned

\* update_data line 58: the sender clones the series under the lock
SenderPayload(spawned, current) == current

PipelineInit ==
    /\ stored \in {None, Some(0)}
    /\ signal_chan = IF IsSome(stored)
                       THEN <<SignalData(None, stored)>> ELSE <<>>
    /\ snaps_sent = IF IsSome(stored) THEN 1 ELSE 0
    /\ ud_pc = IF IsSome(stored) THEN "tick" ELSE "idle"
    /\ ind_pc = IF IsSome(stored) THEN "recv" ELSE "idle"
    /\ ws_count = 0 /\ reader_pc = "next" /\ price_chan = <<>>
    /\ fwd_pc = "recv" /\ fwd_tick = 0 /\ bars = 0
    /\ senders = <<>> /\ ohlc_lock = 0 /\ rx_chan = <<>>
    /\ ind_data = 0 /\ params_lock = "free"
    /\ tx_lock = "free" /\ ticks_recv = 0 /\ tick_gap = FALSE
    /\ snap_last = 0 /\ snap_back = FALSE
    /\ snaps_recv = 0
    /\ last_signal = None
    /\ indicators_init = None
    /\ m_pc = "recv" /\ m_pending = None /\ result_chan = <<>>
    /\ recvLog = <<>> /\ emitLog = <<>> /\ nSent = 0
    /\ f_price = 0 /\ f_ind = None /\ f_pc = "idle"
    /\ f_value = None /\ f_signal = None
    /\ now = 0 /\ last_trade_time = 0 /\ tasks = <<>> /\ bot_lock = 0
    /\ market = None /\ running = 0 /\ orders = <<>> /\ approvals = <<>>
    /\ main_pc = "idle" /\ task = <<>> /\ shutdown_chan = 0
    /\ snapshot = None /\ computed = None /\ previous = None /\ updates = 0
    /\ fn_call = None /\ fn_ret = None
    /\ ohlc_data = <<>> /\ startup_data = <<>> /\ rf_pc = "idle"
    /\ rf_lock = "free" /\ rf_waiting = 0 /\ rf_chan = <<>>
    /\ rf_last = None /\ rf_errors = 0

\* ws_price_feed lines 68-75: the reader task reads a price message
ReaderNext ==
    /\ reader_pc = "next"
    /\ ws_count < TickBound(stored)
    /\ ws_count' = ws_count + 1
    /\ reader_pc' = "send"
    /\ UNCHANGED <<price_chan, fwd_pc, fwd_tick, bars, ud_pc, senders,
                   ohlc_lock, rx_chan, ind_pc, ind_data, stored, params_lock,
                   tx_lock, ticks_recv, tick_gap, snap_last, snap_back,
                   snaps_sent, snaps_recv, signal_chan, last_signal>>

\* lines 76-88: price_tx.send(price_data).await
ReaderSend ==
    /\ reader_pc = "send"
    /\ CanSend(price_chan, PriceChanCap)
    /\ price_chan' = Append(price_chan, ws_count)
    /\ reader_pc' = "next"
    /\ UNCHANGED <<ws_count, fwd_pc, fwd_tick, bars, ud_pc, senders,
                   ohlc_lock, rx_chan, ind_pc, ind_data, stored, params_lock,
                   tx_lock, ticks_recv, tick_gap, snap_last, snap_back,
                   snaps_sent, snaps_recv, signal_chan, last_signal>>

\* main lines 145-152: price_rx.recv()
ForwarderRecv ==
    /\ fwd_pc = "recv"
    /\ price_chan # <<>>
    /\ fwd_tick' = Head(price_chan)
    /\ price_chan' = Tail(price_chan)
    /\ fwd_pc' = "lock"
    /\ UNCHANGED <<ws_count, reader_pc, bars, ud_pc, senders,
                   ohlc_lock, rx_chan, ind_pc, ind_data, stored, params_lock,
                   tx_lock, ticks_recv, tick_gap, snap_last, snap_back,
                   snaps_sent, snaps_recv, signal_chan, last_signal>>

\* main line 155: signal_tx_clone1.lock().await
ForwarderLock ==
    /\ fwd_pc = "lock"
    /\ tx_lock = "free"
    /\ tx_lock' = "forwarder"
    /\ fwd_pc' = "send"
    /\ UNCHANGED <<ws_count, reader_pc, price_chan, fwd_tick, bars, ud_pc,
                   senders, ohlc_lock, rx_chan, ind_pc, ind_data, stored,
                   params_lock, ticks_recv, tick_gap, snap_last, snap_back,
                   snaps_sent, snaps_recv, signal_chan, last_signal>>

\* main lines 156-159: send on the signal channel, then the guard is dropped
ForwarderSend ==
    /\ fwd_pc = "send"
    /\ CanSend(signal_chan, SignalChanCap)
    /\ signal_chan' = Append(signal_chan, SignalData(Some(fwd_tick), None))
    /\ tx_lock' = "free"
    /\ fwd_pc' = "recv"
    /\ UNCHANGED <<ws_count, reader_pc, price_chan, fwd_tick, bars, ud_pc,
                   senders, ohlc_lock, rx_chan, ind_pc, ind_data, stored,
                   params_lock, ticks_recv, tick_gap, snap_last, snap_back,
                   snaps_sent, snaps_recv, last_signal>>


\* update_data lines 24-38: the timer fires and the OHLC series is locked
UpdateLock ==
    /\ ud_pc = "tick"
    /\ ohlc_lock = 0
    /\ ohlc_lock' = -1
    /\ ud_pc' = "fetch"
    /\ UNCHANGED <<ws_count, reader_pc, price_chan, fwd_pc, fwd_tick, bars,
                   senders, rx_chan, ind_pc, ind_data, stored, params_lock,
                   tx_lock, ticks_recv, tick_gap, snap_last, snap_back,
                   snaps_sent, snaps_recv, signal_chan, last_signal>>

\* lines 40-62: get_ohlcs_history answers with newer bars: the series is
\* extended, a sender task is spawned, the guard is dropped with the pass
FetchNewBars ==
    /\ ud_pc = "fetch"
    /\ bars < MaxRefresh
    /\ bars' = bars + 1
    /\ senders' = Append(senders,
                         [pc |-> "lock", spawned |-> bars + 1, data |-> 0])
    /\ ohlc_lock' = 0
    /\ ud_pc' = "tick"
    /\ UNCHANGED <<ws_count, reader_pc, price_chan, fwd_pc, fwd_tick,
                   rx_chan, ind_pc, ind_data, stored, params_lock,
                   tx_lock, ticks_recv, tick_gap, snap_last, snap_back,
                   snaps_sent, snaps_recv, signal_chan, last_signal>>

\* lines 42-44 and 64-67: no newer bar, or the call failed
FetchNoNewBars ==
    /\ ud_pc = "fetch"
    /\ ohlc_lock' = 0
    /\ ud_pc' = "tick"
    /\ UNCHANGED <<ws_count, reader_pc, price_chan, fwd_pc, fwd_tick, bars,
                   senders, rx_chan, ind_pc, ind_data, stored, params_lock,
                   tx_lock, ticks_recv, tick_gap, snap_last, snap_back,
                   snaps_sent, snaps_recv, signal_chan, last_signal>>

\* lines 56-57: a sender task locks the series
SenderLock(i) ==
    /\ senders[i].pc = "lock"
    /\ ohlc_lock = 0
    /\ ohlc_lock' = i
    /\ senders' = [senders EXCEPT
                     ![i].pc = "send",
                     ![i].data = SenderPayload(senders[i].spawned, bars)]
    /\ UNCHANGED <<ws_count, reader_pc, price_chan, fwd_pc, fwd_tick, bars,
                   ud_pc, rx_chan, ind_pc, ind_data, stored, params_lock,
                   tx_lock, ticks_recv, tick_gap, snap_last, snap_back,
                   snaps_sent, snaps_recv, signal_chan, last_signal>>

\* lines 58-61: tx_clone.send(..).await under the guard, then the task ends
SenderSend(i) ==
    /\ senders[i].pc = "send"
    /\ CanSend(rx_chan, OhlcChanCap)
    /\ rx_chan' = Append(rx_chan, senders[i].data)
    /\ ohlc_lock' = 0
    /\ senders' = [senders EXCEPT ![i].pc = "done"]
    /\ UNCHANGED <<ws_count, reader_pc, price_chan, fwd_pc, fwd_tick, bars,
                   ud_pc, ind_pc, ind_data, stored, params_lock,
                   tx_lock, ticks_recv, tick_gap, snap_last, snap_back,
                   snaps_sent, snaps_recv, signal_chan, last_signal>>

\* main lines 97-109: rx.recv() and update_price_indicators
IndicatorRecv ==
    /\ ind_pc = "recv"
    /\ rx_chan # <<>>
    /\ ind_data' = Head(rx_chan)
    /\ rx_chan' = Tail(rx_chan)
    /\ ind_pc' = "lock_bot"
    /\ UNCHANGED <<ws_count, reader_pc, price_chan, fwd_pc, fwd_tick, bars,
                   ud_pc, senders, ohlc_lock, stored, params_lock,
                   tx_lock, ticks_recv, tick_gap, snap_last, snap_back,
                   snaps_sent, snaps_recv, signal_chan, last_signal>>

\* lines 111-120: bot_params is locked and update_indicators stores the
\* snapshot of the series
IndicatorLockParams ==
    /\ ind_pc = "lock_bot"
    /\ params_lock = "free"
    /\ params_lock' = "indicators"
    /\ stored' = IF IsSome(stored) THEN Some(ind_data) ELSE stored
    /\ ind_pc' = "lock_tx"
    /\ UNCHANGED <<ws_count, reader_pc, price_chan, fwd_pc, fwd_tick, bars,
                   ud_pc, senders, ohlc_lock, rx_chan, ind_data,
                   tx_lock, ticks_recv, tick_gap, snap_last, snap_back,
                   snaps_sent, snaps_recv, signal_chan, last_signal>>

\* line 121: signal_tx.lock().await, bot_params still locked
IndicatorLockTx ==
    /\ ind_pc = "lock_tx"
    /\ tx_lock = "free"
    /\ tx_lock' = "indicators"
    /\ ind_pc' = "send"
    /\ UNCHANGED <<ws_count, reader_pc, price_chan, fwd_pc, fwd_tick, bars,
                   ud_pc, senders, ohlc_lock, rx_chan, ind_data, stored,
                   params_lock, ticks_recv, tick_gap, snap_last, snap_back,
                   snaps_sent, snaps_recv, signal_chan, last_signal>>

\* lines 122-123: send on the signal channel, then both guards are dropped
IndicatorSend ==
    /\ ind_pc = "send"
    /\ CanSend(signal_chan, SignalChanCap)
    /\ signal_chan' = Append(signal_chan, SignalData(None, stored))
    /\ snaps_sent' = snaps_sent + 1
    /\ tx_lock' = "free"
    /\ params_lock' = "free"
    /\ ind_pc' = "recv"
    /\ UNCHANGED <<ws_count, reader_pc, price_chan, fwd_pc, fwd_tick, bars,
                   ud_pc, senders, ohlc_lock, rx_chan, ind_data, stored,
                   ticks_recv, tick_gap, snap_last, snap_back,
                   snaps_recv, last_signal>>

\* get_signals lines 41-56: a message is received, merged and retained
GetSignalsRecv ==
    /\ signal_chan # <<>>
    /\ LET signal_data == Head(signal_chan)
       IN  /\ last_signal' = StoreLast(signal_data,
                                       MergeLatest(signal_data, last_signal))
           /\ IF IsSome(signal_data.price_data)
                THEN /\ ticks_recv' = ticks_recv + 1
                     /\ tick_gap' = (tick_gap \/
                           Unwrap(signal_data.price_data) # ticks_recv + 1)
                     /\ UNCHANGED <<snap_last, snap_back, snaps_recv>>
                ELSE /\ snaps_recv' = snaps_recv + 1
                     /\ snap_last' = Unwrap(signal_data.indicators)
                     /\ snap_back' = (snap_back \/
                           Unwrap(signal_data.indicators) < snap_last)
                     /\ UNCHANGED <<ticks_recv, tick_gap>>
    /\ signal_chan' = Tail(signal_chan)
    /\ UNCHANGED <<ws_count, reader_pc, price_chan, fwd_pc, fwd_tick, bars,
                   ud_pc, senders, ohlc_lock, rx_chan, ind_pc, ind_data,
                   stored, params_lock, tx_lock, snaps_sent>>

PipelineFrame ==
    UNCHANGED <<fusionVars, gateVars, mainVars, snapVars, callVars,
                refreshVars, m_pc, m_pending,
                result_chan, recvLog, emitLog, nSent, indicators_init>>

PipelineNext ==
    \/ ReaderNext /\ PipelineFrame
    \/ ReaderSend /\ PipelineFrame
    \/ ForwarderRecv /\ PipelineFrame
    \/ ForwarderLock /\ PipelineFrame
    \/ ForwarderSend /\ PipelineFrame
    \/ UpdateLock /\ PipelineFrame
    \/ FetchNewBars /\ PipelineFrame
    \/ FetchNoNewBars /\ PipelineFrame
    \/ \E i \in DOMAIN senders : SenderLock(i) /\ PipelineFrame
    \/ \E i \in DOMAIN senders : SenderSend(i) /\ PipelineFrame
    \/ IndicatorRecv /\ PipelineFrame
    \/ IndicatorLockParams /\ PipelineFrame
    \/ IndicatorLockTx /\ PipelineFrame
    \/ IndicatorSend /\ PipelineFrame
    \/ GetSignalsRecv /\ PipelineFrame

SpecPipeline == PipelineInit /\ [][PipelineNext]_vars


\* every await of the delivering tasks is resumed once it can proceed; the
\* Mutex of tokio queues its waiters, so a sender task waiting for the
\* series gets it although update_data takes it again at every pass
PipelineFairness ==
    /\ WF_vars(ReaderSend /\ PipelineFrame)
    /\ WF_vars(ForwarderRecv /\ PipelineFrame)
    /\ WF_vars(ForwarderLock /\ PipelineFrame)
    /\ WF_vars(ForwarderSend /\ PipelineFrame)
    /\ WF_vars((FetchNewBars \/ FetchNoNewBars) /\ PipelineFrame)
    /\ SF_vars(\E i \in DOMAIN senders : SenderLock(i) /\ PipelineFrame)
    /\ WF_vars(\E i \in DOMAIN senders : SenderSend(i) /\ PipelineFrame)
    /\ WF_vars(IndicatorRecv /\ PipelineFrame)
    /\ WF_vars(IndicatorLockParams /\ PipelineFrame)
    /\ WF_vars(IndicatorLockTx /\ PipelineFrame)
    /\ WF_vars(IndicatorSend /\ PipelineFrame)
    /\ WF_vars(GetSignalsRecv /\ PipelineFrame)

SpecPipelineFair == SpecPipeline /\ PipelineFairness


----------------------------------------------------------------------------
(* Properties of the pipeline, under SpecPipeline and SpecPipelineFair *)

\* ticks the reader task has put on the price channel
TicksPut == ws_count - (IF reader_pc = "send" THEN 1 ELSE 0)

TicksOnSignalChan ==
    Cardinality({i \in DOMAIN signal_chan : IsSome(signal_chan[i].price_data)})

SnapshotsOnSignalChan ==
    Cardinality({i \in DOMAIN signal_chan : IsSome(signal_chan[i].indicators)})

\* snapshots computed: those sent and the one the indicator task holds
SnapshotsComputed ==
    snaps_sent + (IF ind_pc \in {"lock_tx", "send"} THEN 1 ELSE 0)

C16_AppliedInArrivalOrder ==
    /\ ~tick_gap
    /\ ~snap_back
    /\ \A i, j \in DOMAIN signal_chan :
         /\ (i < j /\ IsSome(signal_chan[i].price_data)
                   /\ IsSome(signal_chan[j].price_data))
            => Unwrap(signal_chan[i].price_data)
               < Unwrap(signal_chan[j].price_data)
         /\ (i < j /\ IsSome(signal_chan[i].indicators)
                   /\ IsSome(signal_chan[j].indicators))
            => Unwrap(signal_chan[i].indicators)
               <= Unwrap(signal_chan[j].indicators)
    /\ IsSome(last_signal) =>
         /\ Unwrap(last_signal).price_data
            = IF ticks_recv = 0 THEN None ELSE Some(ticks_recv)
         /\ Unwrap(last_signal).indicators
            = IF snaps_recv = 0 THEN None ELSE Some(snap_last)

\* the sender task spawned first sent after the second refresh, and every
\* snapshot and tick has been received
C16_Witness ==
    /\ Len(senders) >= 2
    /\ senders[1].pc = "done" /\ senders[1].data = 2
    /\ senders[2].pc = "done"
    /\ snaps_recv = 3
    /\ ticks_recv = MaxTicksRefreshing

\* C18 as claimed: no network call and no bounded-channel send is executed
\* while the task holds the lock on the shared context or on the OHLC series.
C18_NoSuspendingCallUnderLock ==
    /\ ud_pc = "fetch" => ohlc_lock # -1
    /\ \A i \in DOMAIN senders : senders[i].pc = "send" => ohlc_lock # i
    /\ ind_pc = "send" => params_lock # "indicators"


----------------------------------------------------------------------------
(***************************************************************************)
(* SpecMain: main from init_bot_params to its return, and the life of the  *)
(* tasks it spawns.  A task is "none" before it is spawned; when main      *)
(* returns the runtime is dropped and every task still running is          *)
(* cancelled at its await ("aborted").  What the tasks exchange is the     *)
(* subject of SpecPipeline.                                                *)
(***************************************************************************)

TaskNames == {"feed", "reader", "update_data", "indicators", "forwarder",
              "get_signals"}

\* the states in which a task is running
Running == {"connect", "sleep", "select", "read", "loop"}

\* init_bot_params lines 76-119: get_indicators succeeded or failed; the
\* function returns Ok in both cases
InitResult(indicators) == "Ok"

MainInit ==
    /\ main_pc = "init"
    /\ task = [t \in TaskNames |-> "none"]
    /\ shutdown_chan = 0
    /\ indicators_init = None
    /\ signal_chan = <<>>
    /\ last_signal = None
    /\ m_pc = "idle" /\ m_pending = None /\ result_chan = <<>>
    /\ recvLog = <<>> /\ emitLog = <<>> /\ nSent = 0
    /\ f_price = 0 /\ f_ind = None /\ f_pc = "idle"
    /\ f_value = None /\ f_signal = None
    /\ now = 0 /\ last_trade_time = 0 /\ tasks = <<>> /\ bot_lock = 0
    /\ market = None /\ running = 0 /\ orders = <<>> /\ approvals = <<>>
    /\ ws_count = 0 /\ reader_pc = "idle" /\ price_chan = <<>>
    /\ fwd_pc = "idle" /\ fwd_tick = 0 /\ bars = 0 /\ ud_pc = "idle"
    /\ senders = <<>> /\ ohlc_lock = 0 /\ rx_chan = <<>> /\ ind_pc = "idle"
    /\ ind_data = 0 /\ stored = None /\ params_lock = "free"
    /\ tx_lock = "free" /\ ticks_recv = 0 /\ tick_gap = FALSE
    /\ snap_last = 0 /\ snap_back = FALSE /\ snaps_sent = 0
    /\ snaps_recv = 0
    /\ snapshot = None /\ computed = None /\ previous = None /\ updates = 0
    /\ fn_call = None /\ fn_ret = None
    /\ ohlc_data = <<>> /\ startup_data = <<>> /\ rf_pc = "idle"
    /\ rf_lock = "free" /\ rf_waiting = 0 /\ rf_chan = <<>>
    /\ rf_last = None /\ rf_errors = 0

\* main lines 40-54: init_bot_params(..).await
InitBotParams(indicators) ==
    /\ main_pc = "init"
    /\ indicators_init' = indicators
    /\ main_pc' = "matched"
    /\ UNCHANGED <<task, shutdown_chan, signal_chan>>

\* lines 55-79: the match on the result; Ok puts the initial snapshot, if
\* there is one, on the signal channel; Err returns from main
MainMatch ==
    /\ main_pc = "matched"
    /\ IF InitResult(indicators_init) = "Ok"
         THEN /\ signal_chan' =
                   IF IsSome(indicators_init)
                     THEN Append(signal_chan, SignalData(None, indicators_init))
                     ELSE signal_chan
              /\ main_pc' = "spawn_refresh"
         ELSE /\ main_pc' = "exited"
              /\ UNCHANGED signal_chan
    /\ UNCHANGED <<task, shutdown_chan, indicators_init>>

\* lines 82-127: update_data and the indicator task are spawned when there
\* is a snapshot, "Indicators not initialized." is printed otherwise
MainSpawnRefresh ==
    /\ main_pc = "spawn_refresh"
    /\ task' = IF IsSome(indicators_init)
                 THEN [task EXCEPT !.update_data = "loop",
                                   !.indicators = "loop"]
                 ELSE task
    /\ main_pc' = "spawn_feed"
    /\ UNCHANGED <<shutdown_chan, indicators_init, signal_chan>>

\* lines 130-140: the channels and the task running ws_price_feed
MainSpawnFeed ==
    /\ main_pc = "spawn_feed"
    /\ task' = [task EXCEPT !.feed = "connect"]
    /\ main_pc' = "spawn_forwarder"
    /\ UNCHANGED <<shutdown_chan, indicators_init, signal_chan>>

\* lines 143-161
MainSpawnForwarder ==
    /\ main_pc = "spawn_forwarder"
    /\ task' = [task EXCEPT !.forwarder = "loop"]
    /\ main_pc' = "spawn_signals"
    /\ UNCHANGED <<shutdown_chan, indicators_init, signal_chan>>

\* lines 163-174: get_signals and the loop that prints its signals
MainSpawnSignals ==
    /\ main_pc = "spawn_signals"
    /\ task' = [task EXCEPT !.get_signals = "loop"]
    /\ main_pc' = "ctrl_c"
    /\ UNCHANGED <<shutdown_chan, indicators_init, signal_chan>>

\* lines 178-182: Ctrl+C arrives and the shutdown signal is sent; the send
\* fails, ignored, when ws_price_feed has returned
CtrlC ==
    /\ main_pc = "ctrl_c"
    /\ shutdown_chan' = IF task.feed = "returned" THEN 0 ELSE 1
    /\ main_pc' = "join"
    /\ UNCHANGED <<task, indicators_init, signal_chan>>

\* lines 185-187: handle.await, then main returns and the runtime is dropped
MainJoin ==
    /\ main_pc = "join"
    /\ task.feed = "returned"
    /\ main_pc' = "exited"
    /\ task' = [t \in TaskNames |->
                  IF task[t] \in Running THEN "aborted" ELSE task[t]]
    /\ UNCHANGED <<shutdown_chan, indicators_init, signal_chan>>

\* ws_price_feed lines 32-38: connect_async failed
FeedConnectErr ==
    /\ task.feed = "connect"
    /\ task' = [task EXCEPT !.feed = "sleep"]
    /\ UNCHANGED <<main_pc, shutdown_chan, indicators_init, signal_chan>>

\* line 36-37: the five seconds are over
FeedRetry ==
    /\ task.feed = "sleep"
    /\ task' = [task EXCEPT !.feed = "connect"]
    /\ UNCHANGED <<main_pc, shutdown_chan, indicators_init, signal_chan>>

\* lines 54-57: connected, but the subscription could not be sent
FeedSubscribeErr ==
    /\ task.feed = "connect"
    /\ UNCHANGED <<main_pc, task, shutdown_chan, indicators_init,
                   signal_chan>>

\* lines 41-101: connected and subscribed; the reader task is spawned
FeedConnected ==
    /\ task.feed = "connect"
    /\ task' = [task EXCEPT !.feed = "select", !.reader = "read"]
    /\ UNCHANGED <<main_pc, shutdown_chan, indicators_init, signal_chan>>

\* lines 104-112 and 129-133: the ping failed: both loops are left
FeedPingFails ==
    /\ task.feed = "select"
    /\ task' = [task EXCEPT !.feed = "returned"]
    /\ UNCHANGED <<main_pc, shutdown_chan, indicators_init, signal_chan>>

\* lines 116-124 and 129-133: the shutdown signal is received
FeedShutdown ==
    /\ task.feed = "select"
    /\ shutdown_chan > 0
    /\ shutdown_chan' = 0
    /\ task' = [task EXCEPT !.feed = "returned"]
    /\ UNCHANGED <<main_pc, indicators_init, signal_chan>>

\* lines 68 and 90-96: the stream ended or failed
ReaderEnds ==
    /\ task.reader = "read"
    /\ task' = [task EXCEPT !.reader = "ended"]
    /\ UNCHANGED <<main_pc, shutdown_chan, indicators_init, signal_chan>>

\* main line 145: price_rx.recv() is None once every price_tx is dropped
ForwarderEnds ==
    /\ task.forwarder = "loop"
    /\ task.feed = "returned"
    /\ task.reader \in {"none", "ended"}
    /\ task' = [task EXCEPT !.forwarder = "ended"]
    /\ UNCHANGED <<main_pc, shutdown_chan, indicators_init, signal_chan>>

MainFrame ==
    UNCHANGED <<fusionVars, gateVars, pipeVars, snapVars, callVars,
                refreshVars, last_signal, m_pc,
                m_pending, result_chan, recvLog, emitLog, nSent>>

MainNext ==
    \/ \E i \in {None} \cup {Some(x) : x \in MergerIndicators} :
         InitBotParams(i) /\ MainFrame
    \/ MainMatch /\ MainFrame
    \/ MainSpawnRefresh /\ MainFrame
    \/ MainSpawnFeed /\ MainFrame
    \/ MainSpawnForwarder /\ MainFrame
    \/ MainSpawnSignals /\ MainFrame
    \/ CtrlC /\ MainFrame
    \/ MainJoin /\ MainFrame
    \/ FeedConnectErr /\ MainFrame
    \/ FeedRetry /\ MainFrame
    \/ FeedSubscribeErr /\ MainFrame
    \/ FeedConnected /\ MainFrame
    \/ FeedPingFails /\ MainFrame
    \/ FeedShutdown /\ MainFrame
    \/ ReaderEnds /\ MainFrame
    \/ ForwarderEnds /\ MainFrame

SpecMain == MainInit /\ [][MainNext]_vars

----------------------------------------------------------------------------
(* Properties of main, under SpecMain *)

\* C17 as claimed: after the shutdown signal every long-running task
\* observes it and exits gracefully: when main has returned no task was
\* left to be cancelled, and ws_price_feed takes the signal in every state
\* it can be in.
C17_EveryTaskExitsGracefully ==
    /\ main_pc = "exited" => \A t \in TaskNames : task[t] # "aborted"
    /\ (shutdown_chan > 0 /\ task.feed \in Running) => ENABLED FeedShutdown

\* C19 as claimed: without an initial snapshot the process terminates and
\* no tick ingestion, merger or gate task is started.
C19_NoRunWithoutInitialSnapshot ==
    (main_pc # "init" /\ IsNone(indicators_init)) =>
      /\ main_pc \in {"matched", "exited"}
      /\ \A t \in TaskNames : task[t] = "none"

\* C27 as claimed: ws_price_feed returns only after the shutdown signal,
\* which main sends once, after Ctrl+C, has been received: a failed ping
\* alone never ends the price feed.
C27_FeedStopsOnlyAfterShutdown ==
    task.feed = "returned" => main_pc \in {"join", "exited"}


----------------------------------------------------------------------------
(***************************************************************************)
(* SpecSnapshot: update_indicators on the stored snapshot.  A value is the *)
(* number of the computation that produced it (0: get_indicators at        *)
(* startup).                                                               *)
(***************************************************************************)

MaxUpdates == 2           \* calls of update_indicators in a run

\* the fields of the primary bar series, of the price series, of the index
\* series
OhlcFields == {"ohlc_data", "ohlc_ma", "ohlc_ema", "ohlc_bollinger_bands",
               "ohlc_rsi", "atr"}
PriceFields == {"ma", "ema", "bollinger_bands", "rsi"}
IndexFields == {"i_ma", "i_ema", "i_bollinger_bands", "i_rsi"}
SnapshotFields == OhlcFields \cup PriceFields \cup IndexFields

\* which fields a computation finds a value for: a series shorter than a
\* period leaves its field absent, a series not fetched leaves all of its
\* fields absent
OhlcPresent == {OhlcFields, {"ohlc_data", "ohlc_ma", "atr"}, {"ohlc_data"}}
PricePresent == {{}, PriceFields, {"ma"}}
IndexPresent == {{}, IndexFields, {"i_rsi", "i_bollinger_bands"}}

\* the values computation n produces
Computation(n, present) ==
    [f \in SnapshotFields |-> IF f \in present THEN Some(n) ELSE None]

\* a primary field that keeps its value when the computed one is absent
StoreOhlc_KeepWhenAbsent(old, new) == IF IsSome(new) THEN new ELSE old

\* update_indicators lines 25-31: the field is assigned
StoreOhlc(old, new) == new

\* lines 34-63: the field is assigned only when the computed value is
\* present
StoreAuxiliary(old, new) == IF IsSome(new) THEN new ELSE old

\* update_indicators, lines 23-66
update_indicators(indicators, new) ==
    IF IsSome(indicators)
      THEN Some([f \in SnapshotFields |->
                   IF f \in OhlcFields
                     THEN StoreOhlc(Unwrap(indicators)[f], new[f])
                     ELSE StoreAuxiliary(Unwrap(indicators)[f], new[f])])
      ELSE indicators

SnapshotInit ==
    /\ snapshot \in {None} \cup
         {Some(Computation(0, o \cup p \cup i)) :
            o \in {OhlcFields}, p \in {{}, PriceFields},
            i \in {{}, IndexFields}}
    /\ computed = None
    /\ previous = None
    /\ updates = 0
    /\ fn_call = None /\ fn_ret = None
    /\ ohlc_data = <<>> /\ startup_data = <<>> /\ rf_pc = "idle"
    /\ rf_lock = "free" /\ rf_waiting = 0 /\ rf_chan = <<>>
    /\ rf_last = None /\ rf_errors = 0
    /\ main_pc = "idle" /\ task = <<>> /\ shutdown_chan = 0
    /\ indicators_init = None /\ signal_chan = <<>> /\ last_signal = None
    /\ m_pc = "idle" /\ m_pending = None /\ result_chan = <<>>
    /\ recvLog = <<>> /\ emitLog = <<>> /\ nSent = 0
    /\ f_price = 0 /\ f_ind = None /\ f_pc = "idle"
    /\ f_value = None /\ f_signal = None
    /\ now = 0 /\ last_trade_time = 0 /\ tasks = <<>> /\ bot_lock = 0
    /\ market = None /\ running = 0 /\ orders = <<>> /\ approvals = <<>>
    /\ ws_count = 0 /\ reader_pc = "idle" /\ price_chan = <<>>
    /\ fwd_pc = "idle" /\ fwd_tick = 0 /\ bars = 0 /\ ud_pc = "idle"
    /\ senders = <<>> /\ ohlc_lock = 0 /\ rx_chan = <<>> /\ ind_pc = "idle"
    /\ ind_data = 0 /\ stored = None /\ params_lock = "free"
    /\ tx_lock = "free" /\ ticks_recv = 0 /\ tick_gap = FALSE
    /\ snap_last = 0 /\ snap_back = FALSE /\ snaps_sent = 0
    /\ snaps_recv = 0

\* main lines 111-112: update_indicators on the locked bot_params
UpdateIndicators(new) ==
    /\ updates < MaxUpdates
    /\ previous' = snapshot
    /\ computed' = Some(new)
    /\ snapshot' = update_indicators(snapshot, new)
    /\ updates' = updates + 1

SnapshotNext ==
    \E o \in OhlcPresent, p \in PricePresent, i \in IndexPresent :
      /\ UpdateIndicators(Computation(updates + 1, o \cup p \cup i))
      /\ UNCHANGED <<fusionVars, mergerVars, gateVars, pipeVars, mainVars,
                     callVars, refreshVars>>

SpecSnapshot == SnapshotInit /\ [][SnapshotNext]_vars

----------------------------------------------------------------------------
(* Properties of update_indicators, under SpecSnapshot *)

\* C20 as claimed: after update_indicators every indicator field of the
\* stored snapshot equals the value just computed, absent included.
C20_SnapshotReplacedWholesale ==
    (updates > 0 /\ IsSome(snapshot)) =>
      \A f \in SnapshotFields : Unwrap(snapshot)[f] = Unwrap(computed)[f]

\* C20 amended: after update_indicators on a stored snapshot every field of
\* the primary bar series equals the value just computed, absent included;
\* a field of the price or index series equals the value just computed when
\* there is one and keeps its previous value when the computed one is
\* absent.  Without a stored snapshot nothing is stored.
C20_PrimaryReplacedAuxiliaryKept ==
    updates > 0 =>
      /\ IsSome(snapshot) = IsSome(previous)
      /\ IsSome(snapshot) =>
           /\ \A f \in OhlcFields :
                Unwrap(snapshot)[f] = Unwrap(computed)[f]
           /\ \A f \in PriceFields \cup IndexFields :
                Unwrap(snapshot)[f] =
                  IF IsSome(Unwrap(computed)[f]) THEN Unwrap(computed)[f]
                  ELSE Unwrap(previous)[f]

\* a refresh without price series after a startup with one: the primary RSI
\* became absent, the price MA kept the value of the startup
C20_Witness ==
    /\ updates = 1
    /\ IsSome(snapshot)
    /\ Unwrap(previous).ohlc_rsi = Some(0)
    /\ Unwrap(computed).ohlc_rsi = None
    /\ Unwrap(snapshot).ohlc_rsi = None
    /\ Unwrap(computed).ma = None
    /\ Unwrap(snapshot).ma = Some(0)


----------------------------------------------------------------------------
(***************************************************************************)
(* SpecSizing: the three sizing functions create_trade_from_signal calls,  *)
(* each called once with arguments drawn from the sets below.              *)
(***************************************************************************)

\* FuturesMarket with the quantity limits given
SizingMarket(min, max, tiers) ==
    [limits |-> [quantity |-> [min |-> min, max |-> max],
                 count |-> [max |-> 1]],
     fees |-> [trading |-> [tiers |-> tiers]]]

SizingLimits == {<<1, 5>>, <<3, 3>>, <<0, 1000000>>, <<100, 200000>>, <<5, 1>>}

\* Vec<Tier> as the exchange sends it, and in other orders
SizingTiers ==
    {<<[min_volume |-> 0, fees |-> 10], [min_volume |-> 6000, fees |-> 8]>>,
     <<[min_volume |-> 6000, fees |-> 8], [min_volume |-> 0, fees |-> 10]>>,
     <<[min_volume |-> 6000, fees |-> 8]>>,
     <<[min_volume |-> 6000, fees |-> 8], [min_volume |-> 20000, fees |-> 6],
       [min_volume |-> 10000, fees |-> 7]>>,
     <<>>}

QuantityCalls ==
    {[fn |-> "calculate_trade_quantity", balance_sats |-> b, entry_price |-> e,
      max_trades |-> n, atr |-> a,
      market_data |-> SizingMarket(l[1], l[2], <<>>)] :
       b \in {0, 1000, 6000, 1000000000}, e \in {1, 1000, 2000},
       n \in {0, 1, 4},
       a \in {None, Some(-5), Some(0), Some(1), Some(30), Some(1000)},
       l \in SizingLimits}

StoplossCalls ==
    {[fn |-> "calculate_stoploss_takeprofit", entry_price |-> e,
      atr_value |-> a, leverage |-> l, is_buy |-> s,
      risk_to_reward_ratio |-> rr, risk_to_loss_ratio |-> rl] :
       e \in {1000, 50000}, a \in {-5, 0, 1, 30}, l \in {1, 20},
       s \in BOOLEAN, rr \in {1, 2, 3}, rl \in {1, 2}}

TradeParamsCalls ==
    {[fn |-> "calculate_trade_params", trade_type |-> t, entry_price |-> e,
      trade_quantity |-> q, market_data |-> SizingMarket(1, 5, tiers)] :
       t \in {"b", "s", "x"}, e \in {800, 1000}, q \in 1 .. 5,
       tiers \in SizingTiers}

SizingInit ==
    /\ fn_call \in QuantityCalls \cup StoplossCalls \cup TradeParamsCalls
    /\ fn_ret = None
    /\ ohlc_data = <<>> /\ startup_data = <<>> /\ rf_pc = "idle"
    /\ rf_lock = "free" /\ rf_waiting = 0 /\ rf_chan = <<>>
    /\ rf_last = None /\ rf_errors = 0
    /\ snapshot = None /\ computed = None /\ previous = None /\ updates = 0
    /\ main_pc = "idle" /\ task = <<>> /\ shutdown_chan = 0
    /\ indicators_init = None /\ signal_chan = <<>> /\ last_signal = None
    /\ m_pc = "idle" /\ m_pending = None /\ result_chan = <<>>
    /\ recvLog = <<>> /\ emitLog = <<>> /\ nSent = 0
    /\ f_price = 0 /\ f_ind = None /\ f_pc = "idle"
    /\ f_value = None /\ f_signal = None
    /\ now = 0 /\ last_trade_time = 0 /\ tasks = <<>> /\ bot_lock = 0
    /\ market = None /\ running = 0 /\ orders = <<>> /\ approvals = <<>>
    /\ ws_count = 0 /\ reader_pc = "idle" /\ price_chan = <<>>
    /\ fwd_pc = "idle" /\ fwd_tick = 0 /\ bars = 0 /\ ud_pc = "idle"
    /\ senders = <<>> /\ ohlc_lock = 0 /\ rx_chan = <<>> /\ ind_pc = "idle"
    /\ ind_data = 0 /\ stored = None /\ params_lock = "free"
    /\ tx_lock = "free" /\ ticks_recv = 0 /\ tick_gap = FALSE
    /\ snap_last = 0 /\ snap_back = FALSE /\ snaps_sent = 0
    /\ snaps_recv = 0

\* create_trade_from_signal lines 95-103
CallTradeQuantity ==
    /\ fn_call.fn = "calculate_trade_quantity"
    /\ fn_ret = None
    /\ fn_ret' = Some(calculate_trade_quantity(
                          fn_call.balance_sats, fn_call.entry_price,
                          fn_call.max_trades, fn_call.atr, fn_call.market_data))
    /\ UNCHANGED fn_call

\* lines 112-119
CallStoplossTakeprofit ==
    /\ fn_call.fn = "calculate_stoploss_takeprofit"
    /\ fn_ret = None
    /\ fn_ret' = Some(calculate_stoploss_takeprofit(
                          fn_call.entry_price, fn_call.atr_value,
                          fn_call.leverage, fn_call.is_buy,
                          fn_call.risk_to_reward_ratio,
                          fn_call.risk_to_loss_ratio))
    /\ UNCHANGED fn_call

\* line 124
CallTradeParams ==
    /\ fn_call.fn = "calculate_trade_params"
    /\ fn_ret = None
    /\ \E r \in calculate_trade_params(fn_call.trade_type, fn_call.entry_price,
                                       fn_call.trade_quantity,
                                       fn_call.market_data) :
         fn_ret' = Some(r)
    /\ UNCHANGED fn_call

SizingFrame ==
    UNCHANGED <<fusionVars, mergerVars, gateVars, pipeVars, mainVars, snapVars,
                refreshVars>>

SizingNext ==
    \/ CallTradeQuantity /\ SizingFrame
    \/ CallStoplossTakeprofit /\ SizingFrame
    \/ CallTradeParams /\ SizingFrame

SpecSizing == SizingInit /\ [][SizingNext]_vars

----------------------------------------------------------------------------
(* Properties of the sizing functions, under SpecSizing *)

Returned(fn) == fn_call.fn = fn /\ IsSome(fn_ret)

\* C21: whenever calculate_trade_quantity succeeds for market limits with
\* minimum <= maximum, the quantity it returns lies between the market
\* minimum and the market maximum, whatever the balance, the entry price,
\* the maximum trade count (0 included) and the positive ATR.
C21_QuantityWithinMarketLimits ==
    (/\ Returned("calculate_trade_quantity")
     /\ IsSome(Unwrap(fn_ret))
     /\ fn_call.market_data.limits.quantity.min
        <= fn_call.market_data.limits.quantity.max)
    => \A q \in Unwrap(Unwrap(fn_ret)) :
         /\ fn_call.market_data.limits.quantity.min <= q
         /\ q <= fn_call.market_data.limits.quantity.max

\* a quantity far above the market maximum came back as the maximum
C21_Witness ==
    /\ Returned("calculate_trade_quantity")
    /\ fn_call.balance_sats = 1000000000 /\ fn_call.entry_price = 2000
    /\ fn_call.max_trades = 1 /\ fn_call.atr = Some(1)
    /\ fn_call.market_data.limits.quantity.min = 1
    /\ fn_call.market_data.limits.quantity.max = 5
    /\ Unwrap(fn_ret) = Some({5})


\* C24 as claimed: for every list of fee tiers calculate_trade_params uses
\* the fee rate of the tier with the highest minimum volume among the tiers
\* whose minimum volume is at most the margin, and returns "No matching fee
\* tier found" exactly when there is no such tier.
C24_FeeOfHighestMatchingTier ==
    Returned("calculate_trade_params") =>
      LET r        == Unwrap(fn_ret)
          tiers    == fn_call.market_data.fees.trading.tiers
          matching == {i \in DOMAIN tiers :
                         2 * tiers[i].min_volume <= r.margin_x2}
      IN  /\ r.result = NoFeeTier <=> matching = {}
          /\ matching # {} =>
               \E i \in matching :
                 /\ \A j \in matching :
                      tiers[j].min_volume <= tiers[i].min_volume
                 /\ r.trading_fee_rate = Some(tiers[i].fees)

\* C25: for an ATR above 0 calculate_stoploss_takeprofit returns, for a
\* long, stop = entry - atr*leverage*riskToLossRatio and target = entry +
\* atr*leverage*riskToRewardRatio, and for a short the mirrored values; with
\* positive leverage and ratios stop < entry < target for a long and
\* target < entry < stop for a short.  For an ATR of 0 or below it returns
\* the error and no values.
C25_StopAndTargetAroundEntry ==
    Returned("calculate_stoploss_takeprofit") =>
      LET r  == Unwrap(fn_ret)
          e  == fn_call.entry_price
          sd == fn_call.atr_value * fn_call.leverage
                * fn_call.risk_to_loss_ratio
          td == fn_call.atr_value * fn_call.leverage
                * fn_call.risk_to_reward_ratio
      IN  IF fn_call.atr_value > 0
            THEN /\ IsSome(r)
                 /\ LET takeprofit == Unwrap(r)[1]
                        stoploss   == Unwrap(r)[2]
                    IN  IF fn_call.is_buy
                          THEN /\ stoploss = e - sd /\ takeprofit = e + td
                               /\ stoploss < e /\ e < takeprofit
                          ELSE /\ stoploss = e + sd /\ takeprofit = e - td
                               /\ takeprofit < e /\ e < stoploss
            ELSE r = None

\* a short at 1000 with the ATR 30, leverage 20 and the ratios 2 and 1: the
\* target is below 0
C25_Witness ==
    /\ Returned("calculate_stoploss_takeprofit")
    /\ ~fn_call.is_buy /\ fn_call.entry_price = 1000 /\ fn_call.atr_value = 30
    /\ fn_call.leverage = 20 /\ fn_call.risk_to_reward_ratio = 2
    /\ fn_call.risk_to_loss_ratio = 1
    /\ Unwrap(fn_ret) = Some(<<-200, 1600>>)

----------------------------------------------------------------------------
(***************************************************************************)
(* SpecSeries: the series functions of price_indicators.rs, each called    *)
(* once.  A series is a sequence of whole prices; a result is the exact    *)
(* quotient <<numerator, denominator>> of what the code computes in f64.   *)
(* A call returns an Option or panics at a slice index out of bounds.      *)
(***************************************************************************)

MaxLen == 3               \* longest series
MaxPeriod == 3            \* largest period

RECURSIVE SumSeq(_)
SumSeq(s) == IF s = <<>> THEN 0 ELSE Head(s) + SumSeq(Tail(s))

Abs(x) == IF x < 0 THEN -x ELSE x

\* iter().take(n)
Take(s, n) == SubSeq(s, 1, Min(n, Len(s)))

\* the last n elements: iter().skip(len - n), &s[len - n..]
LastN(s, n) == SubSeq(s, Len(s) - n + 1, Len(s))

Returns(value) == [panicked |-> FALSE, value |-> value]
Panics == [panicked |-> TRUE, value |-> None]

\* lines 13-18
calculate_moving_average(prices, period) ==
    IF Len(prices) < period THEN None
    ELSE Some(<<SumSeq(LastN(prices, period)), period>>)

\* lines 37-39: ema = (price - ema) * smoothing + ema over prices[i ..]
RECURSIVE EmaOver(_, _, _, _)
EmaOver(ema, prices, i, period) ==
    IF i > Len(prices) THEN ema
    ELSE EmaOver(<<2 * (prices[i] * ema[2] - ema[1]) + ema[1] * (period + 1),
                   ema[2] * (period + 1)>>,
                 prices, i + 1, period)

\* lines 29-42
calculate_exponential_moving_average(prices, period) ==
    IF Len(prices) < period THEN None
    ELSE Some(EmaOver(<<SumSeq(Take(prices, period)), period>>,
                      prices, period + 1, period))

\* lines 54-76: the middle band and the variance of the window; the lower
\* and the upper band are the middle band -/+ multiplier * sqrt(variance)
calculate_bollinger_bands(prices, period) ==
    IF Len(prices) < period THEN None
    ELSE LET window == LastN(prices, period)
             total  == SumSeq(window)
         IN  Some([middle_band |-> <<total, period>>,
                   variance |->
                     <<SumSeq([i \in 1 .. period |->
                                 (window[i] * period - total)
                                 * (window[i] * period - total)]),
                       period * period * period>>])

\* lines 98-107
Gains(prices) ==
    [i \in 1 .. Len(prices) - 1 |->
       IF prices[i + 1] - prices[i] > 0 THEN prices[i + 1] - prices[i] ELSE 0]
Losses(prices) ==
    [i \in 1 .. Len(prices) - 1 |->
       IF prices[i + 1] - prices[i] > 0 THEN 0 ELSE prices[i] - prices[i + 1]]

\* lines 115-118: avg = (avg * (period - 1) + x[i]) / period over x[i ..]
RECURSIVE WilderOver(_, _, _, _)
WilderOver(avg, x, i, period) ==
    IF i > Len(x) THEN avg
    ELSE WilderOver(<<avg[1] * (period - 1) + x[i] * avg[2], avg[2] * period>>,
                    x, i + 1, period)

\* lines 90-128
calculate_rsi(prices, period) ==
    IF Len(prices) < period THEN None
    ELSE LET gains    == Gains(prices)
             losses   == Losses(prices)
             avg_gain == WilderOver(<<SumSeq(Take(gains, period)), period>>,
                                    gains, period + 1, period)
             avg_loss == WilderOver(<<SumSeq(Take(losses, period)), period>>,
                                    losses, period + 1, period)
         IN  IF avg_loss[1] = 0 THEN Some(<<100, 1>>)
             ELSE Some(<<100 * avg_gain[1], avg_gain[1] + avg_loss[1]>>)

\* lines 141-167: the loop of line 153 runs over the indices of highs and
\* reads lows[i] and closes[i - 1]
calculate_atr(highs, lows, closes, period) ==
    IF Len(highs) < period \/ Len(lows) < period \/ Len(closes) < period
      THEN Returns(None)
    ELSE IF \E i \in 2 .. Len(highs) : i > Len(lows) \/ i - 1 > Len(closes)
      THEN Panics
    ELSE LET true_ranges ==
               [i \in 1 .. Len(highs) - 1 |->
                  Max(Max(highs[i + 1] - lows[i + 1],
                          Abs(highs[i + 1] - closes[i])),
                      Abs(lows[i + 1] - closes[i]))]
         IN  IF Len(true_ranges) < period THEN Returns(None)
             ELSE Returns(Some(<<SumSeq(Take(true_ranges, period)), period>>))

\* the series of at most MaxLen prices
SeriesOver(values) == UNION {[1 .. n -> values] : n \in 0 .. MaxLen}

Periods == 1 .. MaxPeriod

PriceSeriesFns == {"calculate_moving_average",
                   "calculate_exponential_moving_average",
                   "calculate_bollinger_bands", "calculate_rsi"}

SeriesCalls ==
    {[fn |-> f, prices |-> s, period |-> p] :
       f \in PriceSeriesFns, s \in SeriesOver({1, 2, 4}), p \in Periods}
    \cup
    {[fn |-> "calculate_atr", highs |-> h, lows |-> l, closes |-> c,
      period |-> p] :
       h \in SeriesOver({3, 5}), l \in SeriesOver({1, 2}),
       c \in SeriesOver({2, 4}), p \in Periods}

SeriesInit ==
    /\ fn_call \in SeriesCalls
    /\ fn_ret = None
    /\ ohlc_data = <<>> /\ startup_data = <<>> /\ rf_pc = "idle"
    /\ rf_lock = "free" /\ rf_waiting = 0 /\ rf_chan = <<>>
    /\ rf_last = None /\ rf_errors = 0
    /\ snapshot = None /\ computed = None /\ previous = None /\ updates = 0
    /\ main_pc = "idle" /\ task = <<>> /\ shutdown_chan = 0
    /\ indicators_init = None /\ signal_chan = <<>> /\ last_signal = None
    /\ m_pc = "idle" /\ m_pending = None /\ result_chan = <<>>
    /\ recvLog = <<>> /\ emitLog = <<>> /\ nSent = 0
    /\ f_price = 0 /\ f_ind = None /\ f_pc = "idle"
    /\ f_value = None /\ f_signal = None
    /\ now = 0 /\ last_trade_time = 0 /\ tasks = <<>> /\ bot_lock = 0
    /\ market = None /\ running = 0 /\ orders = <<>> /\ approvals = <<>>
    /\ ws_count = 0 /\ reader_pc = "idle" /\ price_chan = <<>>
    /\ fwd_pc = "idle" /\ fwd_tick = 0 /\ bars = 0 /\ ud_pc = "idle"
    /\ senders = <<>> /\ ohlc_lock = 0 /\ rx_chan = <<>> /\ ind_pc = "idle"
    /\ ind_data = 0 /\ stored = None /\ params_lock = "free"
    /\ tx_lock = "free" /\ ticks_recv = 0 /\ tick_gap = FALSE
    /\ snap_last = 0 /\ snap_back = FALSE /\ snaps_sent = 0
    /\ snaps_recv = 0

CallMovingAverage ==
    /\ fn_call.fn = "calculate_moving_average"
    /\ fn_ret = None
    /\ fn_ret' = Some(Returns(calculate_moving_average(fn_call.prices,
                                                       fn_call.period)))
    /\ UNCHANGED fn_call

CallExponentialMovingAverage ==
    /\ fn_call.fn = "calculate_exponential_moving_average"
    /\ fn_ret = None
    /\ fn_ret' = Some(Returns(calculate_exponential_moving_average(
                                  fn_call.prices, fn_call.period)))
    /\ UNCHANGED fn_call

CallBollingerBands ==
    /\ fn_call.fn = "calculate_bollinger_bands"
    /\ fn_ret = None
    /\ fn_ret' = Some(Returns(calculate_bollinger_bands(fn_call.prices,
                                                        fn_call.period)))
    /\ UNCHANGED fn_call

CallRsi ==
    /\ fn_call.fn = "calculate_rsi"
    /\ fn_ret = None
    /\ fn_ret' = Some(Returns(calculate_rsi(fn_call.prices, fn_call.period)))
    /\ UNCHANGED fn_call

CallAtr ==
    /\ fn_call.fn = "calculate_atr"
    /\ fn_ret = None
    /\ fn_ret' = Some(calculate_atr(fn_call.highs, fn_call.lows,
                                    fn_call.closes, fn_call.period))
    /\ UNCHANGED fn_call

SeriesFrame ==
    UNCHANGED <<fusionVars, mergerVars, gateVars, pipeVars, mainVars, snapVars,
                refreshVars>>

SeriesNext ==
    \/ CallMovingAverage /\ SeriesFrame
    \/ CallExponentialMovingAverage /\ SeriesFrame
    \/ CallBollingerBands /\ SeriesFrame
    \/ CallRsi /\ SeriesFrame
    \/ CallAtr /\ SeriesFrame

SpecSeries == SeriesInit /\ [][SeriesNext]_vars

----------------------------------------------------------------------------
(* Properties of the series functions, under SpecSeries *)

\* one of the series of the call is shorter than its period
ShorterThanPeriod ==
    IF fn_call.fn = "calculate_atr"
      THEN \/ Len(fn_call.highs) < fn_call.period
           \/ Len(fn_call.lows) < fn_call.period
           \/ Len(fn_call.closes) < fn_call.period
      ELSE Len(fn_call.prices) < fn_call.period

\* C23 as claimed: for a series shorter than the period, the empty one
\* included, each of the five functions returns absent, and none of them
\* panics, whatever the lengths of its input series.
C23_AbsentWhenShortAndNeverPanics ==
    IsSome(fn_ret) =>
      /\ ~Unwrap(fn_ret).panicked
      /\ ShorterThanPeriod => Unwrap(fn_ret).value = None


----------------------------------------------------------------------------
(***************************************************************************)
(* SpecRefresh: update_data with the bars of the shared series.  A bar is  *)
(* its time; get_ohlcs_history answers with bars in ascending order of     *)
(* time, or fails.  Each pass that found newer bars spawns a sender task,  *)
(* which locks the series and sends a copy of it to the indicator task.    *)
(***************************************************************************)

MaxBarTime == 4           \* latest bar time the exchange answers with
MaxPasses == 2            \* passes of the loop of update_data in a run

\* the sequences over 1 .. n in strictly ascending order
Ascending(n) ==
    {s \in UNION {[1 .. k -> 1 .. n] : k \in 0 .. n} :
       \A i \in 1 .. Len(s) - 1 : s[i] < s[i + 1]}

\* Retain that keeps the bar at `from` as well
Retain_FromIncluded(new_data, from) ==
    SelectSeq(new_data, LAMBDA time : time >= from)

\* update_data line 42: new_data.retain(|entry| entry.time > from)
Retain(new_data, from) == SelectSeq(new_data, LAMBDA time : time > from)

\* lines 45-51: extend, then reverse, truncate(data_length), reverse
ExtendTruncate(series, new_data) ==
    LET extended == series \o new_data
    IN  IF Len(extended) > Len(series) THEN LastN(extended, Len(series))
                                       ELSE extended

\* UpdatePass whose Err arm empties the series
UpdatePass_ErrClears(series, fetched) ==
    IF IsNone(fetched)
      THEN [series |-> <<>>, spawn |-> FALSE, logged |-> TRUE]
    ELSE LET from     == IF series = <<>> THEN 0 ELSE series[Len(series)]
             new_data == Retain(Unwrap(fetched), from)
         IN  [series |-> IF new_data # <<>>
                           THEN ExtendTruncate(series, new_data) ELSE series,
              spawn  |-> new_data # <<>>,
              logged |-> FALSE]

\* lines 28-68, the pass under the lock: the series it leaves, whether it
\* spawns a sender task, whether it logs "Error updating OHLC data".
\* fetched is None for Err, Some(bars) for Ok
UpdatePass(series, fetched) ==
    IF IsNone(fetched)
      THEN [series |-> series, spawn |-> FALSE, logged |-> TRUE]
    ELSE LET from     == IF series = <<>> THEN 0 ELSE series[Len(series)]
             new_data == Retain(Unwrap(fetched), from)
         IN  [series |-> IF new_data # <<>>
                           THEN ExtendTruncate(series, new_data) ELSE series,
              spawn  |-> new_data # <<>>,
              logged |-> FALSE]

\* passes of the loop so far
Passes == IF IsNone(rf_last) THEN 0 ELSE Unwrap(rf_last).pass

RefreshInit ==
    /\ ohlc_data \in Ascending(2)
    /\ startup_data = ohlc_data
    /\ rf_pc = "tick"
    /\ rf_lock = "free"
    /\ rf_waiting = 0
    /\ rf_chan = <<>>
    /\ rf_last = None
    /\ rf_errors = 0
    /\ fn_call = None /\ fn_ret = None
    /\ snapshot = None /\ computed = None /\ previous = None /\ updates = 0
    /\ main_pc = "idle" /\ task = <<>> /\ shutdown_chan = 0
    /\ indicators_init = None /\ signal_chan = <<>> /\ last_signal = None
    /\ m_pc = "idle" /\ m_pending = None /\ result_chan = <<>>
    /\ recvLog = <<>> /\ emitLog = <<>> /\ nSent = 0
    /\ f_price = 0 /\ f_ind = None /\ f_pc = "idle"
    /\ f_value = None /\ f_signal = None
    /\ now = 0 /\ last_trade_time = 0 /\ tasks = <<>> /\ bot_lock = 0
    /\ market = None /\ running = 0 /\ orders = <<>> /\ approvals = <<>>
    /\ ws_count = 0 /\ reader_pc = "idle" /\ price_chan = <<>>
    /\ fwd_pc = "idle" /\ fwd_tick = 0 /\ bars = 0 /\ ud_pc = "idle"
    /\ senders = <<>> /\ ohlc_lock = 0 /\ rx_chan = <<>> /\ ind_pc = "idle"
    /\ ind_data = 0 /\ stored = None /\ params_lock = "free"
    /\ tx_lock = "free" /\ ticks_recv = 0 /\ tick_gap = FALSE
    /\ snap_last = 0 /\ snap_back = FALSE /\ snaps_sent = 0
    /\ snaps_recv = 0

\* lines 24-38: the timer fires and the series is locked
RefreshLock ==
    /\ rf_pc = "tick"
    /\ rf_lock = "free"
    /\ Passes < MaxPasses
    /\ rf_lock' = "update_data"
    /\ rf_pc' = "fetch"
    /\ UNCHANGED <<ohlc_data, startup_data, rf_waiting, rf_chan, rf_last,
                   rf_errors>>

\* lines 40-69: get_ohlcs_history has answered; the pass ends, the guard is
\* dropped and the loop is at its timer again
RefreshAnswer(fetched) ==
    /\ rf_pc = "fetch"
    /\ LET pass == UpdatePass(ohlc_data, fetched)
       IN  /\ ohlc_data' = pass.series
           /\ rf_waiting' = rf_waiting + (IF pass.spawn THEN 1 ELSE 0)
           /\ rf_errors' = rf_errors + (IF pass.logged THEN 1 ELSE 0)
           /\ rf_last' = Some([pass |-> Passes + 1, fetched |-> fetched,
                               before |-> ohlc_data, after |-> pass.series,
                               spawned |-> pass.spawn])
    /\ rf_lock' = "free"
    /\ rf_pc' = "tick"
    /\ UNCHANGED <<startup_data, rf_chan>>

\* lines 40-63
RefreshOk(bars_fetched) == RefreshAnswer(Some(bars_fetched))

\* lines 64-67
RefreshErr == RefreshAnswer(None)

\* lines 56-57: a sender task locks the series
RefreshSenderLock ==
    /\ rf_waiting > 0
    /\ rf_lock = "free"
    /\ rf_lock' = "sender"
    /\ rf_waiting' = rf_waiting - 1
    /\ UNCHANGED <<ohlc_data, startup_data, rf_pc, rf_chan, rf_last,
                   rf_errors>>

\* lines 58-61: it sends a copy of the series and ends
RefreshSenderSend ==
    /\ rf_lock = "sender"
    /\ CanSend(rf_chan, OhlcChanCap)
    /\ rf_chan' = Append(rf_chan, ohlc_data)
    /\ rf_lock' = "free"
    /\ UNCHANGED <<ohlc_data, startup_data, rf_pc, rf_waiting, rf_last,
                   rf_errors>>

\* main line 97: the indicator task receives the series
RefreshRecv ==
    /\ rf_chan # <<>>
    /\ rf_chan' = Tail(rf_chan)
    /\ UNCHANGED <<ohlc_data, startup_data, rf_pc, rf_lock, rf_waiting,
                   rf_last, rf_errors>>

RefreshFrame ==
    UNCHANGED <<fusionVars, mergerVars, gateVars, pipeVars, mainVars, snapVars,
                callVars>>

RefreshNext ==
    \/ RefreshLock /\ RefreshFrame
    \/ \E b \in Ascending(MaxBarTime) : RefreshOk(b) /\ RefreshFrame
    \/ RefreshErr /\ RefreshFrame
    \/ RefreshSenderLock /\ RefreshFrame
    \/ RefreshSenderSend /\ RefreshFrame
    \/ RefreshRecv /\ RefreshFrame

SpecRefresh == RefreshInit /\ [][RefreshNext]_vars


----------------------------------------------------------------------------
(* Properties of update_data, under SpecRefresh *)

\* C26: when a refetch fails, update_data logs the error, leaves the stored
\* series as it was, spawns no sender task and sends nothing, drops the lock
\* and is at its timer again; the loop never ends, and the pass after a
\* failed one can begin as any other can.
C26_FailedRefetchIsLoggedAndSkipped ==
    /\ [][rf_errors' # rf_errors =>
            /\ rf_pc = "fetch"
            /\ rf_errors' = rf_errors + 1
            /\ ohlc_data' = ohlc_data
            /\ rf_waiting' = rf_waiting
            /\ rf_chan' = rf_chan
            /\ rf_pc' = "tick"
            /\ rf_lock' = "free"]_vars
    /\ [][(rf_last' # rf_last /\ IsNone(Unwrap(rf_last').fetched))
            => rf_errors' = rf_errors + 1]_vars
    /\ [](rf_pc \in {"tick", "fetch"})
    /\ []((rf_pc = "tick" /\ rf_lock = "free" /\ Passes < MaxPasses)
            => ENABLED RefreshLock)

\* the first refetch failed, the second brought newer bars, and the series
\* with them has been sent to the indicator task
C26_Witness ==
    /\ rf_errors = 1
    /\ IsSome(rf_last)
    /\ Unwrap(rf_last).pass = 2
    /\ IsSome(Unwrap(rf_last).fetched)
    /\ Unwrap(rf_last).spawned
    /\ Unwrap(rf_last).after # Unwrap(rf_last).before
    /\ rf_chan = <<ohlc_data>>

Range(s) == {s[i] : i \in DOMAIN s}

StrictlyIncreasing(s) == \A i \in 1 .. Len(s) - 1 : s[i] < s[i + 1]

\* C28: after every refresh the stored series is as long as it was at
\* startup and strictly increasing in time.  A pass whose fetch succeeded
\* leaves the newest bars, as many as before, of the bars it had and the
\* fetched bars later than the last of them; when none is later, the series
\* is unchanged and no sender task is spawned, so nothing is sent.
C28_SeriesKeepsLengthAndOrder ==
    /\ Len(ohlc_data) = Len(startup_data)
    /\ StrictlyIncreasing(ohlc_data)
    /\ \A i \in DOMAIN rf_chan :
         Len(rf_chan[i]) = Len(startup_data) /\ StrictlyIncreasing(rf_chan[i])
    /\ (IsSome(rf_last) /\ IsSome(Unwrap(rf_last).fetched)) =>
         LET last   == Unwrap(rf_last)
             from   == IF last.before = <<>> THEN 0
                       ELSE last.before[Len(last.before)]
             newer  == {t \in Range(Unwrap(last.fetched)) : t > from}
             all    == Range(last.before) \cup newer
         IN  /\ Range(last.after) =
                  {t \in all :
                     Cardinality({u \in all : u > t}) < Len(last.before)}
             /\ last.spawned <=> newer # {}
             /\ newer = {} => last.after = last.before

\* the series <<1, 2>> after a fetch of the bars 2, 3 and 4
C28_Witness ==
    /\ IsSome(rf_last)
    /\ Unwrap(rf_last).before = <<1, 2>>
    /\ Unwrap(rf_last).fetched = Some(<<2, 3, 4>>)
    /\ ohlc_data = <<3, 4>>
    /\ rf_chan = <<ohlc_data>>


----------------------------------------------------------------------------
(***************************************************************************)
(* SpecRunning: the tasks of SpecPipeline with the whole of get_signals    *)
(* (its send on the result channel) and the loop of main that prints the   *)
(* signals.  A Signal on the result channel is the number of the tick it   *)
(* was fused from.  The tasks start as main spawns them (bars = 0), or in  *)
(* one of two states of waiting the program comes to when a task has not   *)
(* run for a while.                                                        *)
(*   bars = MaxRefresh: the printing loop has not run since the start.     *)
(*   The result channel is full and get_signals waits at its send; the     *)
(*   signal channel is full and the tick forwarder waits at its send with  *)
(*   the sender locked; the indicator task has stored the snapshot of the  *)
(*   last refresh and waits for the sender with bot_params locked.         *)
(*   bars = OhlcChanCap + 1: the ticks have been processed and the         *)
(*   indicator task has not run since the start.  The OHLC channel is      *)
(*   full, the last sender task waits at its send with the series locked,  *)
(*   and update_data waits for the series.                                 *)
(***************************************************************************)

RunningInit ==
    /\ bars \in {0, MaxRefresh, OhlcChanCap + 1}
    /\ stored \in IF bars = 0 THEN {None, Some(0)}
                  ELSE IF bars = MaxRefresh THEN {Some(bars)} ELSE {Some(0)}
    /\ result_chan = IF bars = MaxRefresh
                       THEN [i \in 1 .. ResultChanCap |-> i] ELSE <<>>
    /\ m_pc = IF bars = MaxRefresh THEN "send" ELSE "recv"
    /\ m_pending = IF bars = MaxRefresh THEN Some(ResultChanCap + 1) ELSE None
    /\ ticks_recv = IF bars = 0 THEN 0
                    ELSE IF bars = MaxRefresh THEN ResultChanCap + 1
                    ELSE MaxTicksRefreshing
    /\ snaps_recv = IF bars = 0 THEN 0
                    ELSE IF bars = MaxRefresh THEN bars ELSE 1
    /\ snaps_sent = IF bars = MaxRefresh THEN bars
                    ELSE IF IsSome(stored) THEN 1 ELSE 0
    /\ snap_last = IF bars = MaxRefresh THEN bars - 1 ELSE 0
    /\ last_signal = IF bars = 0 THEN None
                     ELSE Some(SignalData(Some(ticks_recv), Some(snap_last)))
    /\ signal_chan =
         IF bars = MaxRefresh
           THEN [i \in 1 .. SignalChanCap |->
                   SignalData(Some(ResultChanCap + 1 + i), None)]
           ELSE IF bars = 0 /\ IsSome(stored)
                  THEN <<SignalData(None, stored)>> ELSE <<>>
    /\ fwd_pc = IF bars = MaxRefresh THEN "send" ELSE "recv"
    /\ fwd_tick = IF bars = MaxRefresh
                    THEN ResultChanCap + SignalChanCap + 2 ELSE ticks_recv
    /\ tx_lock = IF bars = MaxRefresh THEN "forwarder" ELSE "free"
    /\ ws_count = fwd_tick
    /\ price_chan = <<>>
    /\ reader_pc = "next"
    /\ ind_pc = IF bars = MaxRefresh THEN "lock_tx"
                ELSE IF IsSome(stored) THEN "recv" ELSE "idle"
    /\ ind_data = IF bars = MaxRefresh THEN bars ELSE 0
    /\ params_lock = IF bars = MaxRefresh THEN "indicators" ELSE "free"
    /\ rx_chan = IF bars > MaxRefresh
                   THEN [i \in 1 .. OhlcChanCap |-> i] ELSE <<>>
    /\ senders =
         [i \in 1 .. bars |->
            [pc |-> IF i > OhlcChanCap THEN "send" ELSE "done",
             spawned |-> i, data |-> i]]
    /\ ohlc_lock = IF bars > MaxRefresh THEN bars ELSE 0
    /\ ud_pc = IF IsSome(stored) THEN "tick" ELSE "idle"
    /\ tick_gap = FALSE /\ snap_back = FALSE
    /\ indicators_init = None
    /\ recvLog = <<>> /\ emitLog = <<>> /\ nSent = 0
    /\ f_price = 0 /\ f_ind = None /\ f_pc = "idle"
    /\ f_value = None /\ f_signal = None
    /\ now = 0 /\ last_trade_time = 0 /\ tasks = <<>> /\ bot_lock = 0
    /\ market = None /\ running = 0 /\ orders = <<>> /\ approvals = <<>>
    /\ main_pc = "idle" /\ task = <<>> /\ shutdown_chan = 0
    /\ snapshot = None /\ computed = None /\ previous = None /\ updates = 0
    /\ fn_call = None /\ fn_ret = None
    /\ ohlc_data = <<>> /\ startup_data = <<>> /\ rf_pc = "idle"
    /\ rf_lock = "free" /\ rf_waiting = 0 /\ rf_chan = <<>>
    /\ rf_last = None /\ rf_errors = 0

\* get_signals lines 41-67: a message is received, merged and retained;
\* with both slots filled the Signal is computed and the send is next
RunningMergerRecv ==
    /\ m_pc = "recv"
    /\ GetSignalsRecv
    /\ IF IsSome(Unwrap(last_signal').price_data)
          /\ IsSome(Unwrap(last_signal').indicators)
         THEN /\ m_pc' = "send"
              /\ m_pending' = Unwrap(last_signal').price_data
         ELSE /\ m_pc' = "recv"
              /\ m_pending' = None
    /\ UNCHANGED result_chan

\* line 69: tx.send(signal).await
RunningMergerSend ==
    /\ m_pc = "send"
    /\ CanSend(result_chan, ResultChanCap)
    /\ result_chan' = Append(result_chan, Unwrap(m_pending))
    /\ m_pending' = None
    /\ m_pc' = "recv"
    /\ UNCHANGED <<pipeVars, signal_chan, last_signal>>

RunningFrame ==
    UNCHANGED <<fusionVars, gateVars, mainVars, snapVars, callVars,
                refreshVars, recvLog, emitLog, nSent, indicators_init>>

RunningNext ==
    \/ ReaderNext /\ PipelineFrame
    \/ ReaderSend /\ PipelineFrame
    \/ ForwarderRecv /\ PipelineFrame
    \/ ForwarderLock /\ PipelineFrame
    \/ ForwarderSend /\ PipelineFrame
    \/ UpdateLock /\ PipelineFrame
    \/ FetchNewBars /\ PipelineFrame
    \/ FetchNoNewBars /\ PipelineFrame
    \/ \E i \in DOMAIN senders : SenderLock(i) /\ PipelineFrame
    \/ \E i \in DOMAIN senders : SenderSend(i) /\ PipelineFrame
    \/ IndicatorRecv /\ PipelineFrame
    \/ IndicatorLockParams /\ PipelineFrame
    \/ IndicatorLockTx /\ PipelineFrame
    \/ IndicatorSend /\ PipelineFrame
    \/ RunningMergerRecv /\ RunningFrame
    \/ RunningMergerSend /\ RunningFrame
    \/ ConsumeSignal /\ UNCHANGED <<fusionVars, gateVars, pipeVars, mainVars,
                                    snapVars, callVars, refreshVars>>

SpecRunning == RunningInit /\ [][RunningNext]_vars

\* every task is resumed once the await it is at can proceed, and a sender
\* task waiting for the series gets it, as in SpecPipelineFair; the timer
\* of update_data and the WebSocket owe nothing
RunningFairness ==
    /\ WF_vars(ReaderSend /\ PipelineFrame)
    /\ WF_vars((ForwarderRecv \/ ForwarderLock \/ ForwarderSend)
               /\ PipelineFrame)
    /\ WF_vars((FetchNewBars \/ FetchNoNewBars) /\ PipelineFrame)
    /\ SF_vars(\E i \in DOMAIN senders : SenderLock(i) /\ PipelineFrame)
    /\ WF_vars(\E i \in DOMAIN senders : SenderSend(i) /\ PipelineFrame)
    /\ WF_vars((IndicatorRecv \/ IndicatorLockParams \/ IndicatorLockTx
                \/ IndicatorSend) /\ PipelineFrame)
    /\ WF_vars((RunningMergerRecv \/ RunningMergerSend) /\ RunningFrame)
    /\ WF_vars(ConsumeSignal /\ UNCHANGED <<fusionVars, gateVars, pipeVars,
                                            mainVars, snapVars, callVars,
                                            refreshVars>>)

SpecRunningFair == SpecRunning /\ RunningFairness


----------------------------------------------------------------------------
(* Properties of the running pipeline, under SpecRunningFair *)

\* a task waits for a mutex another task holds, or at a full channel
ReaderBlocked == reader_pc = "send" /\ ~CanSend(price_chan, PriceChanCap)

ForwarderBlocked ==
    \/ fwd_pc = "lock" /\ tx_lock # "free"
    \/ fwd_pc = "send" /\ ~CanSend(signal_chan, SignalChanCap)

UpdateDataBlocked == ud_pc = "tick" /\ ohlc_lock # 0

SenderBlocked(i) ==
    \/ senders[i].pc = "lock" /\ ohlc_lock # 0
    \/ senders[i].pc = "send" /\ ~CanSend(rx_chan, OhlcChanCap)

IndicatorBlocked ==
    \/ ind_pc = "lock_bot" /\ params_lock # "free"
    \/ ind_pc = "lock_tx" /\ tx_lock # "free"
    \/ ind_pc = "send" /\ ~CanSend(signal_chan, SignalChanCap)

MergerBlocked == m_pc = "send" /\ ~CanSend(result_chan, ResultChanCap)

SomeTaskBlocked ==
    \/ ReaderBlocked \/ ForwarderBlocked \/ UpdateDataBlocked
    \/ IndicatorBlocked \/ MergerBlocked
    \/ \E i \in DOMAIN senders : SenderBlocked(i)

\* every task is blocked, has ended, or waits for a message on an empty
\* channel (the reader: for the WebSocket; update_data never does)
EveryTaskWaits ==
    /\ ReaderBlocked \/ reader_pc = "next"
    /\ ForwarderBlocked \/ (fwd_pc = "recv" /\ price_chan = <<>>)
    /\ UpdateDataBlocked \/ ud_pc = "idle"
    /\ \A i \in DOMAIN senders : SenderBlocked(i) \/ senders[i].pc = "done"
    /\ IndicatorBlocked \/ ind_pc = "idle"
                        \/ (ind_pc = "recv" /\ rx_chan = <<>>)
    /\ MergerBlocked \/ (m_pc = "recv" /\ signal_chan = <<>>)
    /\ result_chan = <<>>

\* nothing is pending: no tick, series, snapshot or Signal is on a channel
\* or with a task on its way
NothingPending ==
    /\ price_chan = <<>> /\ signal_chan = <<>>
    /\ rx_chan = <<>> /\ result_chan = <<>>
    /\ reader_pc = "next" /\ fwd_pc = "recv" /\ m_pc = "recv"
    /\ ind_pc \in {"recv", "idle"}
    /\ \A i \in DOMAIN senders : senders[i].pc = "done"

\* C29: the running pipeline never deadlocks.  In no state is a task
\* blocked on a mutex or a full channel while every task is blocked or
\* waits for input; and what is pending is processed: every tick read is in
\* the end received by get_signals, every series sent becomes a snapshot
\* get_signals receives, and again and again nothing is pending.
C29_PipelineNeverDeadlocks ==
    /\ [](~(SomeTaskBlocked /\ EveryTaskWaits))
    /\ []<>(/\ NothingPending
            /\ ticks_recv = ws_count
            /\ snaps_recv = snaps_sent)

\* from the state in which get_signals, the tick forwarder and the
\* indicator task wait for one another and for the printing loop,
\* everything has been processed
C29_Witness ==
    /\ NothingPending
    /\ ticks_recv = ResultChanCap + SignalChanCap + 2
    /\ snaps_recv = MaxRefresh + 1
    /\ stored = Some(MaxRefresh)

====
